---- MODULE Spec2Model ----
(***************************************************************************)
(* ChainGuard risk-scoring engine: src/api_server.py and src/backend.py.   *)
(*                                                                         *)
(* Numbers.  Python floats are modelled by exact fixed-point integers:     *)
(*   - a fraud probability p is held in permille (p = pm / 1000); every    *)
(*     increment of backend.predict_with_risk is a multiple of 0.001;      *)
(*   - an amount is a rational [n, d] (n / d);                             *)
(*   - the rule-based batch score is held in tenths of a point.            *)
(* Floating-point rounding error of the products is outside the model.     *)
(***************************************************************************)
EXTENDS Integers, Sequences, FiniteSets, TLC

(***************************************************************************)
(* Scaled stand-ins for quantities too large to enumerate.  The source     *)
(* values are given on the right; the order relations between them that    *)
(* the code relies on are kept.                                            *)
(***************************************************************************)
WeiPerEth == 1000      \* 1e18, api_server.py:641, backend.py:127
HighCap == 1           \* 100,  api_server.py:701, :1686
SuspCap == 2           \* 200,  api_server.py:713, :1700
LiveCap == 2           \* 1000, api_server.py:685 (same capacity for fraud_history, :690)
KeepRecent == 2        \* 2500, api_server.py:727
DedupLimit == 2        \* 5000, api_server.py:723
BlockWindow == 1       \* 3 blocks (current_block - 2 .. current_block), api_server.py:616
SampleSize == 1        \* 5, api_server.py:626

(* Bounds of the explored inputs. *)
NumTx == 4             \* number of distinct transaction hashes the chain can present
MaxBlock == 3          \* highest block number the chain reaches
MaxBlockOneThread == 4 \* chain heights explored with a single monitoring thread
MaxWorkers == 2        \* monitoring_loop threads that can exist at once
MaxRows == 1           \* rows of an uploaded CSV
MaxBatchRows == 3      \* rows of a CSV analysed as a batch
MaxBlockRace == 3      \* chain heights explored statement by statement
MaxBlockFair == 2      \* chain heights explored under fair scheduling
FirstTxRace == 3       \* transaction hashes explored statement by statement:
NumTxRace == 5         \*   FirstTxRace .. NumTxRace
MaxBlockFlag == 4      \* chain heights explored with flag_node requests
MaxBlockDrain == 3     \* chain heights explored with the counters read and written apart

(* Thresholds of the program. *)
BlockThreshold == 80
SuspiciousThreshold == 65
LabelSuspiciousThreshold == 50
MaxProbability == 950
ScoreCap == 100

Min(a, b) == IF a <= b THEN a ELSE b
Max(a, b) == IF a >= b THEN a ELSE b
Abs(a) == IF a >= 0 THEN a ELSE -a

(***************************************************************************)
(* int(x) of Python and ndarray.astype(int) of numpy: truncation toward    *)
(* zero of num / den (den > 0).                                            *)
(***************************************************************************)
IntRound(num, den) == (2 * num + den) \div (2 * den)
IntTrunc(num, den) == IF num >= 0 THEN num \div den ELSE -((-num) \div den)

(* Mathematical floor of num / den (den > 0). *)
Floor(num, den) == num \div den

(***************************************************************************)
(* get_risk_level_and_action                                               *)
(***************************************************************************)
get_risk_level_and_action_strict(risk_score) ==
  IF risk_score > BlockThreshold
    THEN [level |-> "BLOCKED", action |-> "Block", threat_level |-> "HIGH",
          triggers_alert |-> FALSE]
    ELSE IF risk_score > SuspiciousThreshold
      THEN [level |-> "SUSPICIOUS", action |-> "Alert", threat_level |-> "MEDIUM",
            triggers_alert |-> TRUE]
      ELSE [level |-> "APPROVED", action |-> "Approve", threat_level |-> "LOW",
            triggers_alert |-> FALSE]

get_risk_level_and_action(risk_score) ==
  IF risk_score >= BlockThreshold
    THEN [level |-> "BLOCKED", action |-> "Block", threat_level |-> "HIGH",
          triggers_alert |-> FALSE]
    ELSE IF risk_score >= SuspiciousThreshold
      THEN [level |-> "SUSPICIOUS", action |-> "Alert", threat_level |-> "MEDIUM",
            triggers_alert |-> TRUE]
      ELSE [level |-> "APPROVED", action |-> "Approve", threat_level |-> "LOW",
            triggers_alert |-> FALSE]

(***************************************************************************)
(* Addresses.  The code looks at an address only through string tests, so  *)
(* an address is its identity plus the outcome of each test:               *)
(*   pat   - contains '0000', '1111' or 'ffff'    (backend.py:154, :157)   *)
(*   end0  - ends with '0000'                     (backend.py:161)         *)
(*   zeros - more than 20 characters '0'          (api_server.py:1520)     *)
(* NullAddress is '0x0000000000000000000000000000000000000000'.            *)
(***************************************************************************)
NullAddress == [id |-> 0, pat |-> TRUE, end0 |-> TRUE, zeros |-> TRUE]
AddrPlainA == [id |-> 1, pat |-> FALSE, end0 |-> FALSE, zeros |-> FALSE]
AddrPlainB == [id |-> 2, pat |-> FALSE, end0 |-> FALSE, zeros |-> FALSE]
AddrPattern == [id |-> 3, pat |-> TRUE, end0 |-> FALSE, zeros |-> FALSE]
AddrContract == [id |-> 4, pat |-> TRUE, end0 |-> TRUE, zeros |-> TRUE]
Addresses == {NullAddress, AddrPlainA, AddrPlainB, AddrPattern, AddrContract}

(***************************************************************************)
(* Rational tests on an amount v = [n, d].                                 *)
(***************************************************************************)
RatGT(v, c) == v.n > c * v.d
RatLTMilli(v) == v.n * 1000 < v.d
(* abs(v - round(v)) < 0.001 *)
RatNearInteger(v) ==
  LET r == v.n % v.d
  IN  Min(r, v.d - r) * 1000 < v.d

(***************************************************************************)
(* backend.predict_with_risk, one row.  row.Value is the rational the      *)
(* caller passes; h1 = hash(from + to + value) % 100 and                   *)
(* h2 = hash(TxHash) % 20 are the salted string hashes of the process.     *)
(***************************************************************************)
(* value_eth = row['Value'] / 1e18 of backend.predict_with_risk. *)
ScoredAmount(row) == [n |-> row.Value.n, d |-> row.Value.d * WeiPerEth]

Clamp(x) == Max(0, Min(MaxProbability, x))
p_fraud(row) ==
  LET value_eth == ScoredAmount(row)
      s1 == IF RatGT(value_eth, 100) THEN 400
            ELSE IF RatGT(value_eth, 50) THEN 250
            ELSE IF RatGT(value_eth, 10) THEN 100 ELSE 0
      s2 == s1 + (IF RatNearInteger(value_eth) THEN 300 ELSE 0)
      s3 == s2 + (IF RatLTMilli(value_eth) THEN 200 ELSE 0)
      s4 == s3 + (IF row.From.id = row.To.id THEN 500 ELSE 0)
      s5 == s4 + (IF row.From.pat THEN 150 ELSE 0)
      s6 == s5 + (IF row.To.pat THEN 150 ELSE 0)
      s7 == s6 + (IF row.From.end0 \/ row.To.end0 THEN 100 ELSE 0)
      s8 == s7 + row.h1
      s9 == s8 + (IF row.hour < 6 \/ row.hour > 22 THEN 50 ELSE 0)
      s10 == Clamp(s9)
      final_variance == (row.h2 - 10) * 10
  IN  Clamp(s10 + final_variance)

get_fraud_label_server_tiers(risk_score) ==
  IF risk_score >= BlockThreshold THEN "Fraudulent"
  ELSE IF risk_score >= SuspiciousThreshold THEN "Suspicious"
  ELSE "Normal"

get_fraud_label(risk_score) ==
  IF risk_score >= BlockThreshold THEN "Fraudulent"
  ELSE IF risk_score >= LabelSuspiciousThreshold THEN "Suspicious"
  ELSE "Normal"

get_action(risk_score) ==
  IF risk_score >= BlockThreshold THEN "CRITICAL - Block Transaction Immediately"
  ELSE IF risk_score >= SuspiciousThreshold THEN "HIGH RISK - Flag for Investigation"
  ELSE IF risk_score >= LabelSuspiciousThreshold THEN "SUSPICIOUS - Requires Manual Review"
  ELSE IF risk_score >= 30 THEN "MEDIUM RISK - Monitor Closely"
  ELSE "LOW RISK - Normal Activity"

predict_with_risk(row) ==
  LET p == p_fraud(row)
      risk_score == IntTrunc(p * 100, 1000)
  IN  [p_fraud |-> p, risk_score |-> risk_score,
       label |-> get_fraud_label(risk_score), action |-> get_action(risk_score)]

(***************************************************************************)
(* process_transaction_data: the scored record handed to the worker, or    *)
(* None (NoResult) when scoring raised.                                    *)
(***************************************************************************)
NoResult == [TxHash |-> 0]

process_transaction_data(tx_data) ==
  LET df_result == predict_with_risk(tx_data)
  IN  [TxHash |-> tx_data.TxHash, From |-> tx_data.From, To |-> tx_data.To,
       Value |-> tx_data.Value,
       fraud_probability |-> df_result.p_fraud,
       risk_score |-> df_result.risk_score,
       label |-> df_result.label,
       action |-> df_result.action]

(***************************************************************************)
(* CSVFraudAnalyzer.analyze_transactions, one row.  The running score is   *)
(* in tenths of a point.  row.iso is the Isolation Forest prediction       *)
(* (-1 anomaly, 1 normal), row.anom15 = abs(anomaly_score) * 15 in tenths, *)
(* row.cat the CatBoost class (-1 when CatBoost is not available).         *)
(***************************************************************************)
current_block_approx == 19000000

(* abs(amount - round(amount, 2)) < 0.0001 *)
RatNearHundredth(v) ==
  LET r == (100 * v.n) % v.d
  IN  Min(r, v.d - r) * 100 < v.d

AppendIf(flags, cond, flag) == IF cond THEN Append(flags, flag) ELSE flags

NoCap(x) == x
Cap100(x) == Min(ScoreCap, x)

rule_points_before_status(row) ==
  LET amount == row.Value
      block_age == current_block_approx - row.BlockHeight
      a1 == IF RatGT(amount, 10) THEN 300 ELSE IF RatGT(amount, 1) THEN 150 ELSE 0
      a2 == a1 + (IF RatLTMilli(amount) THEN 200 ELSE 0)
      a3 == a2 + (IF row.isError = 1 THEN 400 ELSE 0)
      a4 == a3 + (IF row.BlockHeight > 0
                    THEN (IF block_age < 100 THEN 100
                          ELSE IF block_age > 10000000 THEN 50 ELSE 0)
                    ELSE 0)
      a5 == a4 + (IF amount.n > 0 /\ RatNearHundredth(amount) THEN 150 ELSE 0)
      ml_risk == IF row.iso = -1 THEN Min(250, row.anom15) ELSE 0
      boost1 == IF row.iso = -1 THEN 10 ELSE 0
      catpts == IF row.cat >= 2 THEN 200 ELSE IF row.cat = 1 THEN 100 ELSE 0
      boost2 == boost1 + (IF row.cat >= 2 THEN 15 ELSE IF row.cat = 1 THEN 5 ELSE 0)
      a6 == a5 + ml_risk + catpts
  IN  a6 + (IF boost2 > 0 THEN Min(15, boost2) * 10 ELSE 0)

rule_points_final(row) ==
  LET b0 == rule_points_before_status(row)
      b1 == b0 + (IF row.From.id = row.To.id THEN 250 ELSE 0)
      b2 == b1 + (IF row.From.zeros THEN 100 ELSE 0)
  IN  b2 + (IF row.To.zeros THEN 100 ELSE 0)

rule_flags(row) ==
  LET amount == row.Value
      block_age == current_block_approx - row.BlockHeight
      f1 == IF RatGT(amount, 10) THEN <<"Large Amount">>
            ELSE IF RatGT(amount, 1) THEN <<"Medium Amount">> ELSE <<>>
      f2 == AppendIf(f1, RatLTMilli(amount), "Dust Transaction")
      f3 == AppendIf(f2, row.isError = 1, "Transaction Error")
      f4 == AppendIf(f3, row.BlockHeight > 0 /\ block_age < 100, "Recent Block")
      f5 == AppendIf(f4, row.BlockHeight > 0 /\ ~(block_age < 100) /\ block_age > 10000000,
                     "Old Block")
      f6 == AppendIf(f5, amount.n > 0 /\ RatNearHundredth(amount), "Round Amount")
      f7 == AppendIf(f6, row.iso = -1, "Isolation Anomaly")
      f8 == AppendIf(f7, row.cat >= 2, "CatBoost High Risk")
      f9 == AppendIf(f8, row.cat = 1, "CatBoost Medium Risk")
      f10 == AppendIf(f9, row.From.id = row.To.id, "Self Transfer")
      f11 == AppendIf(f10, row.From.zeros, "Contract-like From")
  IN  AppendIf(f11, row.To.zeros, "Contract-like To")

(* The float score s satisfies s >= 80 exactly when floor(s) >= 80, so the  *)
(* classifier is applied to the whole points of the running score.         *)
analyze_transactions_row(row) ==
  LET risk_info == get_risk_level_and_action(Floor(rule_points_before_status(row), 10))
  IN  [TxHash |-> row.TxHash, From |-> row.From, To |-> row.To, Value |-> row.Value,
       risk_score |-> Cap100(IntTrunc(rule_points_final(row), 10)),
       status |-> risk_info.level,
       label |-> risk_info.level,
       threat_level |-> risk_info.threat_level,
       flags |-> rule_flags(row)]

(***************************************************************************)
(* predict_with_ensemble, one row: the weighted sum of the sub-models'     *)
(* probabilities.  m.p1, m.p2 are the predict_proba outputs in permille,   *)
(* m.w1 the first weight in permille (the second is 1000 - w1), m.thr the  *)
(* decision threshold in permille.                                         *)
(***************************************************************************)
ensemble_proba(m) == (m.p1 * m.w1 + m.p2 * (1000 - m.w1)) \div 1000
ensemble_pred(m) == IF ensemble_proba(m) >= m.thr THEN 1 ELSE 0

(* analyze_with_ensemble_system, one row. *)
analyze_with_ensemble_row(row, m) ==
  LET raw_value == row.Value
      value_eth == IF RatGT(raw_value, 1000)
                     THEN [n |-> raw_value.n, d |-> raw_value.d * WeiPerEth]
                     ELSE raw_value
      is_fraud == ensemble_pred(m) = 1
      fraud_probability == ensemble_proba(m)
      risk_score == IntTrunc(fraud_probability * 100, 1000)
      risk_info == get_risk_level_and_action(risk_score)
      g1 == AppendIf(<<>>, row.isError = 1, "Transaction Error")
      g2 == IF RatGT(value_eth, 100) THEN Append(g1, "Large Amount")
            ELSE AppendIf(g1, RatLTMilli(value_eth), "Dust Transaction")
      g3 == AppendIf(g2, value_eth.n % value_eth.d = 0 /\ value_eth.n >= value_eth.d,
                     "Round Amount")
      g3a == AppendIf(g3, row.hour \in 2..5, "Suspicious Hour")
      g3b == AppendIf(g3a, row.weekend, "Weekend Transaction")
      g4 == AppendIf(g3b, row.From.id = row.To.id, "Self Transaction")
      g5 == AppendIf(g4, is_fraud, "Ensemble High Risk")
  IN  [TxHash |-> row.TxHash, From |-> row.From, To |-> row.To, Value |-> value_eth,
       risk_score |-> risk_score,
       fraud_probability |-> fraud_probability,
       label |-> risk_info.level,
       status |-> risk_info.level,
       action |-> risk_info.action,
       flags |-> AppendIf(g5, fraud_probability > 800, "High Confidence Fraud"),
       is_fraud |-> is_fraud]

(***************************************************************************)
(* State.                                                                  *)
(***************************************************************************)
VARIABLES
  scored,                  \* the record most recently returned by a scoring function
  active,                  \* monitoring_state['active']
  connected,               \* monitoring_state['connected']
  w3,                      \* monitoring_state['w3'] is set
  current_block,           \* monitoring_state['current_block']
  last_processed_block,    \* monitoring_state['last_processed_block']
  total_processed,         \* monitoring_state['total_processed']
  total_fraud,             \* monitoring_state['total_fraud']
  live_transactions,
  fraud_history,
  high_risk_transactions,
  suspicious_alerts,
  transaction_queue,
  processed_tx_hashes,
  chain_head,              \* block number of the chain (external)
  worker,                  \* the monitoring_loop threads: position and locals
  node_analysis,           \* the node_analysis table: address -> profile row
  csv                      \* the analyze_csv request in progress: position and results

bufferVars == <<live_transactions, fraud_history, high_risk_transactions,
                suspicious_alerts>>
streamVars == <<active, connected, w3, current_block, last_processed_block,
                total_processed, total_fraud, transaction_queue,
                processed_tx_hashes, chain_head, worker, node_analysis>>
vars == <<scored, bufferVars, streamVars, csv>>

(***************************************************************************)
(* Inputs of the scoring functions.                                        *)
(***************************************************************************)
ScoreAddresses == {AddrPlainA, AddrPlainB, AddrPattern, AddrContract}
WeiChoices == {0, WeiPerEth \div 2, WeiPerEth, 60 * WeiPerEth, 150 * WeiPerEth}
H1Choices == {0, 5, 99}
H2Choices == {0, 10, 19}
HourChoices == {3, 12}

(* tx_data as monitoring_loop builds it: Value is value_wei / 1e18. *)
StreamRow(h, wei, from, to, h1, h2, hour) ==
  [TxHash |-> h, From |-> from, To |-> to,
   Value |-> [n |-> wei, d |-> WeiPerEth], Value_Wei |-> wei,
   h1 |-> h1, h2 |-> h2, hour |-> hour]

(* A row of an uploaded CSV; amounts are in units of 1/10000. *)
AmountDen == 10000
AmountChoices == {0, 5, 15000, 12345, 1000000}
BlockHeightChoices == {0, 5000000, 18500000, 18999950}
CsvRow(h, amt, from, to, err, bh, iso, anom15, cat) ==
  [TxHash |-> h, From |-> from, To |-> to,
   Value |-> [n |-> amt, d |-> AmountDen], isError |-> err, BlockHeight |-> bh,
   iso |-> iso, anom15 |-> anom15, cat |-> cat, hour |-> 12, weekend |-> FALSE]

EnsembleOutputs ==
  [p1 : {0, 500, 1000}, p2 : {0, 300, 1000}, w1 : {500, 700}, thr : {500}]

NoScore == [path |-> "none"]

StreamInputs ==
  { StreamRow(1, wei, from, to, h1, h2, hour) :
      wei \in WeiChoices, from \in ScoreAddresses, to \in ScoreAddresses \cup {NullAddress},
      h1 \in H1Choices, h2 \in H2Choices, hour \in HourChoices }

(* predict_with_risk called with Value in wei, as its other callers do. *)
BackendInputs ==
  { [r EXCEPT !.Value = [n |-> r.Value_Wei, d |-> 1]] : r \in StreamInputs }

RuleInputs ==
  { CsvRow(1, amt, from, to, err, bh, iso, anom15, cat) :
      amt \in AmountChoices, from \in ScoreAddresses, to \in ScoreAddresses,
      err \in {0, 1}, bh \in BlockHeightChoices, iso \in {-1, 1},
      anom15 \in {12, 300}, cat \in {-1, 0, 1, 2, 3} }

EnsembleInputs ==
  { [row |-> CsvRow(1, amt, from, to, err, 18500000, 1, 0, -1), m |-> m] :
      amt \in AmountChoices, from \in ScoreAddresses, to \in ScoreAddresses,
      err \in {0, 1}, m \in EnsembleOutputs }

ScoreInputs ==
  { [path |-> "input", fn |-> "classify", arg |-> s] : s \in -5 .. 105 }
  \cup { [path |-> "input", fn |-> "streaming", arg |-> r] : r \in StreamInputs }
  \cup { [path |-> "input", fn |-> "backend", arg |-> r] : r \in BackendInputs }
  \cup { [path |-> "input", fn |-> "rule", arg |-> r] : r \in RuleInputs }
  \cup { [path |-> "input", fn |-> "ensemble", arg |-> r] : r \in EnsembleInputs }

(***************************************************************************)
(* The scoring functions applied to the input held in scored.              *)
(***************************************************************************)
Pending(fn) == scored.path = "input" /\ scored.fn = fn

Classify ==
  /\ Pending("classify")
  /\ scored' = [path |-> "classify", risk_score |-> scored.arg,
                info |-> get_risk_level_and_action(scored.arg)]
  /\ UNCHANGED <<bufferVars, streamVars, csv>>

ScoreStreaming ==
  /\ Pending("streaming")
  /\ LET r == process_transaction_data(scored.arg)
     IN  scored' = [path |-> "streaming", risk_score |-> r.risk_score,
                    tier |-> r.label, fraud_probability |-> r.fraud_probability,
                    arg |-> scored.arg, result |-> r]
  /\ UNCHANGED <<bufferVars, streamVars, csv>>

ScoreBackend ==
  /\ Pending("backend")
  /\ LET r == predict_with_risk(scored.arg)
     IN  scored' = [path |-> "backend", risk_score |-> r.risk_score,
                    tier |-> r.label, fraud_probability |-> r.p_fraud,
                    arg |-> scored.arg, result |-> r]
  /\ UNCHANGED <<bufferVars, streamVars, csv>>

ScoreRuleBased ==
  /\ Pending("rule")
  /\ LET r == analyze_transactions_row(scored.arg)
     IN  scored' = [path |-> "rule", risk_score |-> r.risk_score,
                    tier |-> r.status, arg |-> scored.arg, result |-> r]
  /\ UNCHANGED <<bufferVars, streamVars, csv>>

ScoreEnsemble ==
  /\ Pending("ensemble")
  /\ LET r == analyze_with_ensemble_row(scored.arg.row, scored.arg.m)
     IN  scored' = [path |-> "ensemble", risk_score |-> r.risk_score,
                    tier |-> r.label, fraud_probability |-> r.fraud_probability,
                    arg |-> scored.arg, result |-> r]
  /\ UNCHANGED <<bufferVars, streamVars, csv>>

(***************************************************************************)
(* Initial state: the module-level assignments of api_server.py.           *)
(***************************************************************************)
Workers == 1 .. MaxWorkers
(* A profile row that does not exist: every stored row counts at least   *)
(* one transaction.                                                       *)
NoProfile == [total_transactions |-> 0, fraud_transactions |-> 0,
              fraud_percentage |-> 0, total_value |-> 0, fraud_value |-> 0,
              risk_score |-> 0, first_seen |-> 0, is_flagged |-> FALSE]
NoWorker == [pc |-> "none", cur |-> 0, blk |-> 0, ss |-> 0, txi |-> 0, tx |-> 0,
             i |-> 0, row |-> NoProfile, pending |-> <<>>, reg |-> 0]
NoCsv == [pc |-> "idle", results |-> <<>>]

InitState ==
  /\ active = FALSE
  /\ connected = FALSE
  /\ w3 = FALSE
  /\ current_block = 0
  /\ last_processed_block = 0
  /\ total_processed = 0
  /\ total_fraud = 0
  /\ live_transactions = <<>>
  /\ fraud_history = <<>>
  /\ high_risk_transactions = <<>>
  /\ suspicious_alerts = <<>>
  /\ transaction_queue = <<>>
  /\ processed_tx_hashes = {}
  /\ chain_head = 1
  /\ worker = [w \in Workers |-> NoWorker]
  /\ node_analysis = [a \in {x.id : x \in Addresses} |-> NoProfile]
  /\ csv = NoCsv

Init == scored = NoScore /\ InitState

(***************************************************************************)
(* The chain (external).  Block numbers grow; any transaction of the       *)
(* universe can be presented in any block (the same hash can come back, as *)
(* after a reorganisation).  TxOnChain(h) is the transaction with hash h.  *)
(***************************************************************************)
TxHashes == 1 .. NumTx

TxOnChain(h) ==
  CASE h % 5 = 1 -> StreamRow(h, WeiPerEth \div 2, AddrPlainA, AddrPlainB, 0, 10, 12)
    [] h % 5 = 2 -> StreamRow(h, WeiPerEth \div 2, AddrPattern, AddrPlainB, 0, 10, 12)
    [] h % 5 = 3 -> StreamRow(h, WeiPerEth \div 2, AddrPlainA, AddrPlainA, 0, 10, 12)
    [] h % 5 = 4 -> StreamRow(h, WeiPerEth \div 2, AddrPlainB, AddrPlainA, 0, 0, 12)
    [] OTHER     -> StreamRow(h, WeiPerEth \div 2, AddrPlainB, NullAddress, 0, 10, 12)

ChainAdvanceTo(limit) ==
  /\ chain_head < limit
  /\ chain_head' = chain_head + 1
  /\ UNCHANGED <<scored, bufferVars, active, connected, w3, current_block,
                 last_processed_block, total_processed, total_fraud,
                 transaction_queue, processed_tx_hashes, worker, node_analysis, csv>>

ChainAdvance == ChainAdvanceTo(MaxBlock)

(***************************************************************************)
(* list.insert(0, x) followed by pop() when the list is over capacity;     *)
(* list.append(x) followed by pop(0) when the list is over capacity.       *)
(***************************************************************************)
DropLast(b) == SubSeq(b, 1, Len(b) - 1)

InsertNewestDropHead(buf, x, cap) ==
  LET b == <<x>> \o buf
  IN  IF Len(b) > cap THEN Tail(b) ELSE b

InsertNewest(buf, x, cap) ==
  LET b == <<x>> \o buf
  IN  IF Len(b) > cap THEN DropLast(b) ELSE b

AppendFifoNoEvict(buf, x, cap) == Append(buf, x)

AppendFifo(buf, x, cap) ==
  LET b == Append(buf, x)
  IN  IF Len(b) > cap THEN Tail(b) ELSE b

(* The alert record {**tx, 'alert_type': ..}; the fields of tx are kept    *)
(* under tx.                                                               *)
Alert(tx, alert_type) == [tx |-> tx, alert_type |-> alert_type]

(***************************************************************************)
(* The high-risk / suspicious-alert branch shared by monitoring_loop and   *)
(* analyze_csv: the two buffers after one transaction.                     *)
(***************************************************************************)
RouteAlert(tx, alert_type, high, susp) ==
  IF tx.risk_score >= BlockThreshold
    THEN [high |-> InsertNewest(high, tx, HighCap), susp |-> susp]
    ELSE IF tx.risk_score >= SuspiciousThreshold
      THEN [high |-> high, susp |-> InsertNewest(susp, Alert(tx, alert_type), SuspCap)]
      ELSE [high |-> high, susp |-> susp]

(***************************************************************************)
(* update_node_analysis, called at the end of save_transaction_to_db: the  *)
(* counts and value sums of the sender's and the receiver's rows.  Value   *)
(* is n / WeiPerEth and tx_value is float(Value) / 1e18, so the sums are   *)
(* held in units of 1 / (WeiPerEth * WeiPerEth).                           *)
(***************************************************************************)
RiskUnit == 1000000
CURRENT_TIMESTAMP == chain_head

(* fraud_percentage = (new_fraud_tx / new_total_tx) * 100, lines 525, and  *)
(* the risk score of lines 528-533, both in units of 1 / RiskUnit of their *)
(* full scale (100 per cent, risk 1.0).                                    *)
FraudPercentage(fraud_tx, total_tx) == (RiskUnit * fraud_tx) \div total_tx
RiskScore(fraud_tx, total_tx, total_val) ==
  Min(RiskUnit,
      (400000 * fraud_tx) \div total_tx
      + Min(300000, 30000 * fraud_tx)
      + Min(200000, (200 * total_val) \div (WeiPerEth * WeiPerEth))
      + Min(100000, 1000 * total_tx))

(* The INSERT of lines 545-552: a new row, is_flagged by its DEFAULT 0. *)
InsertRow(is_fraud, tx_value) ==
  [total_transactions |-> 1,
   fraud_transactions |-> IF is_fraud THEN 1 ELSE 0,
   fraud_percentage |-> IF is_fraud THEN RiskUnit ELSE 0,
   total_value |-> tx_value,
   fraud_value |-> IF is_fraud THEN tx_value ELSE 0,
   risk_score |-> IF is_fraud THEN 500000 ELSE 100000,
   first_seen |-> CURRENT_TIMESTAMP,
   is_flagged |-> FALSE]

(* The values lines 519-533 compute from the row read by the SELECT. *)
NewValues(read, is_fraud, tx_value) ==
  LET new_total_tx == read.total_transactions + 1
      new_fraud_tx == read.fraud_transactions + (IF is_fraud THEN 1 ELSE 0)
      new_total_val == read.total_value + tx_value
      new_fraud_val == read.fraud_value + (IF is_fraud THEN tx_value ELSE 0)
  IN  [total_transactions |-> new_total_tx,
       fraud_transactions |-> new_fraud_tx,
       fraud_percentage |-> FraudPercentage(new_fraud_tx, new_total_tx),
       total_value |-> new_total_val,
       fraud_value |-> new_fraud_val,
       risk_score |-> RiskScore(new_fraud_tx, new_total_tx, new_total_val)]

ReplaceStatement(stored, vals) ==
  [total_transactions |-> vals.total_transactions,
   fraud_transactions |-> vals.fraud_transactions,
   fraud_percentage |-> vals.fraud_percentage,
   total_value |-> vals.total_value,
   fraud_value |-> vals.fraud_value,
   risk_score |-> vals.risk_score,
   first_seen |-> CURRENT_TIMESTAMP,
   is_flagged |-> FALSE]

(* The UPDATE of lines 535-543 on the stored row: the columns it does not  *)
(* name keep the values they have when it runs.                            *)
UpdateStatement(stored, vals) ==
  [stored EXCEPT !.total_transactions = vals.total_transactions,
                 !.fraud_transactions = vals.fraud_transactions,
                 !.fraud_percentage = vals.fraud_percentage,
                 !.total_value = vals.total_value,
                 !.fraud_value = vals.fraud_value,
                 !.risk_score = vals.risk_score]

(* tx_value = float(tx_data.get('Value', 0)) / 1e18 of line 516; the sums *)
(* of the rows hold its numerator.                                         *)
ProfileAmount(tx_data) == [n |-> tx_data.Value.n, d |-> tx_data.Value.d * WeiPerEth]

UpdateRow(rows, address, tx_data) ==
  IF address.id = NullAddress.id
    THEN rows
    ELSE LET is_fraud == tx_data.label = "Fraudulent"
             tx_value == ProfileAmount(tx_data).n
             old == rows[address.id]
         IN  [rows EXCEPT ![address.id] =
                IF old = NoProfile THEN InsertRow(is_fraud, tx_value)
                ELSE UpdateStatement(old, NewValues(old, is_fraud, tx_value))]

update_node_analysis(rows, tx_data) ==
  UpdateRow(UpdateRow(rows, tx_data.From, tx_data), tx_data.To, tx_data)

(***************************************************************************)
(* start_monitoring and stop_monitoring (request handlers).                *)
(***************************************************************************)
StartMonitoring ==
  /\ ~active
  /\ \E w \in Workers :
       \* the new thread takes the lowest free slot
       /\ worker[w].pc = "none"
       /\ \A v \in Workers : v < w => worker[v].pc # "none"
       /\ worker' = [worker EXCEPT ![w] = [NoWorker EXCEPT !.pc = "loop"]]
  \* connect_to_blockchain succeeded
  /\ w3' = TRUE
  /\ connected' = TRUE
  /\ current_block' = chain_head
  /\ active' = TRUE
  /\ last_processed_block' = chain_head
  /\ UNCHANGED <<scored, bufferVars, total_processed, total_fraud, transaction_queue,
                 processed_tx_hashes, chain_head, node_analysis, csv>>

StopMonitoring ==
  /\ active' = FALSE
  /\ connected' = FALSE
  /\ UNCHANGED <<scored, bufferVars, w3, current_block, last_processed_block,
                 total_processed, total_fraud, transaction_queue,
                 processed_tx_hashes, chain_head, worker, node_analysis, csv>>

(***************************************************************************)
(* monitoring_loop, thread w.                                              *)
(***************************************************************************)
At(w, pc) == worker[w].pc = pc
Goto(w, rec) == worker' = [worker EXCEPT ![w] = rec]

(* while monitoring_state['active']: read the chain head and choose the    *)
(* first block of the cycle.                                               *)
LoopHeadIgnoresStop(w) ==
  /\ At(w, "loop")
  /\ IF FALSE
       THEN /\ Goto(w, NoWorker)
            /\ UNCHANGED current_block
       ELSE IF ~w3 \/ ~connected
         THEN UNCHANGED <<worker, current_block>>
         ELSE /\ current_block' = chain_head
              /\ IF chain_head > last_processed_block
                   THEN Goto(w, [NoWorker EXCEPT
                                   !.pc = "block", !.cur = chain_head,
                                   !.blk = Max(last_processed_block + 1,
                                               chain_head - (BlockWindow - 1))])
                   ELSE Goto(w, [NoWorker EXCEPT !.pc = "drain", !.cur = chain_head])
  /\ UNCHANGED <<scored, bufferVars, active, connected, w3, last_processed_block,
                 total_processed, total_fraud, transaction_queue,
                 processed_tx_hashes, chain_head, node_analysis, csv>>

LoopHead(w) ==
  /\ At(w, "loop")
  /\ IF ~active
       THEN /\ Goto(w, NoWorker)
            /\ UNCHANGED current_block
       ELSE IF ~w3 \/ ~connected
         THEN UNCHANGED <<worker, current_block>>
         ELSE /\ current_block' = chain_head
              /\ IF chain_head > last_processed_block
                   THEN Goto(w, [NoWorker EXCEPT
                                   !.pc = "block", !.cur = chain_head,
                                   !.blk = Max(last_processed_block + 1,
                                               chain_head - (BlockWindow - 1))])
                   ELSE Goto(w, [NoWorker EXCEPT !.pc = "drain", !.cur = chain_head])
  /\ UNCHANGED <<scored, bufferVars, active, connected, w3, last_processed_block,
                 total_processed, total_fraud, transaction_queue,
                 processed_tx_hashes, chain_head, node_analysis, csv>>

(* for block_num in range(start_block, current_block + 1): fetch the block *)
(* and take its sample; n is the number of transactions of the block and   *)
(* ok tells whether get_block returned.                                    *)
BlockStep(w) ==
  /\ At(w, "block")
  /\ IF worker[w].blk > worker[w].cur \/ ~active
       THEN /\ last_processed_block' = worker[w].cur
            /\ Goto(w, [worker[w] EXCEPT !.pc = "drain", !.blk = 0, !.ss = 0, !.txi = 0])
       ELSE /\ UNCHANGED last_processed_block
            /\ \E ok \in BOOLEAN, n \in 0 .. SampleSize + 1 :
                 IF ok
                   THEN Goto(w, [worker[w] EXCEPT
                                   !.pc = "tx", !.ss = Min(SampleSize, n), !.txi = 0])
                   ELSE Goto(w, [worker[w] EXCEPT !.blk = @ + 1])
  /\ UNCHANGED <<scored, bufferVars, active, connected, w3, current_block,
                 total_processed, total_fraud, transaction_queue,
                 processed_tx_hashes, chain_head, node_analysis, csv>>

(* for tx in block['transactions'][:sample_size]: the next transaction of  *)
(* the sample; h is the hash of the transaction the block holds there.     *)
TxFetchFrom(w, hashes) ==
  /\ At(w, "tx")
  /\ IF worker[w].txi >= worker[w].ss \/ ~active
       THEN Goto(w, [worker[w] EXCEPT !.pc = "block", !.blk = @ + 1, !.ss = 0,
                                       !.txi = 0, !.tx = 0])
       ELSE \E h \in hashes :
              Goto(w, [worker[w] EXCEPT !.pc = "score", !.txi = @ + 1, !.tx = h])
  /\ UNCHANGED <<scored, bufferVars, active, connected, w3, current_block,
                 last_processed_block, total_processed, total_fraud,
                 transaction_queue, processed_tx_hashes, chain_head, node_analysis, csv>>

TxFetch(w) == TxFetchFrom(w, TxHashes)

(* The deduplication test, the scoring, the hand-over to the queue and the *)
(* database write.  ok tells whether process_transaction_data returned a   *)
(* result, db_ok whether save_transaction_to_db reached its commit.        *)
AlwaysFresh(h, hashes) == FALSE

AlreadyProcessed(h, hashes) == h \in hashes

TxProcessSaveRaises(w) ==
  /\ At(w, "score")
  /\ Goto(w, [worker[w] EXCEPT !.pc = "tx"])
  /\ LET tx_hash == worker[w].tx
     IN  IF AlreadyProcessed(tx_hash, processed_tx_hashes)
           THEN UNCHANGED <<processed_tx_hashes, transaction_queue, node_analysis, csv>>
           ELSE \E ok \in BOOLEAN, db_ok \in BOOLEAN :
                  LET result == IF ok THEN process_transaction_data(TxOnChain(tx_hash))
                                ELSE NoResult
                  IN  IF result = NoResult
                        THEN UNCHANGED <<processed_tx_hashes, transaction_queue,
                                         node_analysis, csv>>
                        ELSE /\ processed_tx_hashes' = processed_tx_hashes \cup {tx_hash}
                             /\ transaction_queue' =
                                  IF db_ok THEN Append(transaction_queue, result)
                                  ELSE transaction_queue
                             /\ node_analysis' =
                                  IF db_ok THEN update_node_analysis(node_analysis, result)
                                  ELSE node_analysis
  /\ UNCHANGED <<scored, bufferVars, active, connected, w3, current_block,
                 last_processed_block, total_processed, total_fraud, chain_head, csv>>

TxProcess(w) ==
  /\ At(w, "score")
  /\ Goto(w, [worker[w] EXCEPT !.pc = "tx"])
  /\ LET tx_hash == worker[w].tx
     IN  IF AlreadyProcessed(tx_hash, processed_tx_hashes)
           THEN UNCHANGED <<processed_tx_hashes, transaction_queue, node_analysis, csv>>
           ELSE \E ok \in BOOLEAN, db_ok \in BOOLEAN :
                  LET result == IF ok THEN process_transaction_data(TxOnChain(tx_hash))
                                ELSE NoResult
                  IN  IF result = NoResult
                        THEN UNCHANGED <<processed_tx_hashes, transaction_queue,
                                         node_analysis, csv>>
                        ELSE /\ processed_tx_hashes' = processed_tx_hashes \cup {tx_hash}
                             /\ transaction_queue' = Append(transaction_queue, result)
                             /\ node_analysis' =
                                  IF db_ok THEN update_node_analysis(node_analysis, result)
                                  ELSE node_analysis
  /\ UNCHANGED <<scored, bufferVars, active, connected, w3, current_block,
                 last_processed_block, total_processed, total_fraud, chain_head, csv>>

(* while not transaction_queue.empty(): one pass of the loop body. *)
DrainStep(w) ==
  /\ At(w, "drain")
  /\ IF transaction_queue = <<>>
       THEN /\ Goto(w, [worker[w] EXCEPT !.pc = "cleanup"])
            /\ UNCHANGED <<bufferVars, total_processed, total_fraud, transaction_queue>>
       ELSE LET tx == Head(transaction_queue)
                routed == RouteAlert(tx, "SUSPICIOUS", high_risk_transactions,
                                     suspicious_alerts)
            IN  /\ transaction_queue' = Tail(transaction_queue)
                /\ live_transactions' = InsertNewest(live_transactions, tx, LiveCap)
                /\ fraud_history' = AppendFifo(fraud_history, tx.fraud_probability, LiveCap)
                /\ total_processed' = total_processed + 1
                /\ total_fraud' = total_fraud + (IF tx.label = "Fraudulent" THEN 1 ELSE 0)
                /\ high_risk_transactions' = routed.high
                /\ suspicious_alerts' = routed.susp
                /\ UNCHANGED worker
  /\ UNCHANGED <<scored, active, connected, w3, current_block, last_processed_block,
                 processed_tx_hashes, chain_head, node_analysis, csv>>

(* Cleanup of processed_tx_hashes, then the sleep before the next cycle. *)
HashesOf(txs) == { txs[i].TxHash : i \in 1 .. Len(txs) }

CompactNoReseed(hashes, live) ==
  IF Cardinality(hashes) > DedupLimit THEN {} ELSE hashes

Compact(hashes, live) ==
  IF Cardinality(hashes) > DedupLimit
    THEN HashesOf(SubSeq(live, 1, Min(KeepRecent, Len(live))))
    ELSE hashes

CleanupStep(w) ==
  /\ At(w, "cleanup")
  /\ processed_tx_hashes' = Compact(processed_tx_hashes, live_transactions)
  /\ Goto(w, [worker[w] EXCEPT !.pc = "loop", !.cur = 0])
  /\ UNCHANGED <<scored, bufferVars, active, connected, w3, current_block,
                 last_processed_block, total_processed, total_fraud,
                 transaction_queue, chain_head, node_analysis, csv>>

(***************************************************************************)
(* analyze_csv (request handler): the analysis of the uploaded rows, then  *)
(* the alert loop over the results.                                        *)
(***************************************************************************)
CsvHashBase == 100

(* A Value cell that float() cannot parse ('abc'); every parsed amount has *)
(* a denominator.                                                          *)
NotANumber == [n |-> 0, d |-> 0]
ParsesAsFloat(v) == v.d # 0

UploadedRow(k) ==
  CASE k = 1 -> CsvRow(CsvHashBase + 1, 5, AddrPlainA, AddrPlainA, 1, 18500000, 1, 0, -1)
    [] k = 2 -> CsvRow(CsvHashBase + 2, 15000, AddrPlainA, AddrPlainB, 1, 18500000, 1, 0, -1)
    [] k = 4 -> [CsvRow(CsvHashBase + 4, 0, AddrPlainB, AddrPlainA, 0, 18500000, 1, 0, -1)
                   EXCEPT !.Value = NotANumber]
    [] OTHER -> CsvRow(CsvHashBase + 3, 12345, AddrPlainA, AddrPlainB, 0, 18500000, 1, 0, -1)

UploadedFiles ==
  UNION { [1 .. n -> {1, 2, 3}] : n \in 1 .. MaxRows }

analyze_transactions_skips_errors(file) ==
  LET kept == SelectSeq(file, LAMBDA k : UploadedRow(k).isError = 0)
  IN  [i \in 1 .. Len(kept) |-> analyze_transactions_row(UploadedRow(kept[i]))]

analyze_transactions(file) ==
  [i \in 1 .. Len(file) |-> analyze_transactions_row(UploadedRow(file[i]))]

(* The upload is read and analysed. *)
CsvAnalyze ==
  /\ csv.pc = "idle"
  /\ \E file \in UploadedFiles :
       csv' = [pc |-> "alerts", results |-> analyze_transactions(file)]
  /\ UNCHANGED <<scored, bufferVars, streamVars>>

(* for tx in results: one pass of the loop body; after the last result the *)
(* report is built and the request ends.                                   *)
CsvAlertStep ==
  /\ csv.pc = "alerts"
  /\ IF csv.results = <<>>
       THEN /\ csv' = NoCsv
            /\ UNCHANGED <<high_risk_transactions, suspicious_alerts>>
       ELSE LET tx == Head(csv.results)
                routed == RouteAlert(tx, "SUSPICIOUS_CSV", high_risk_transactions,
                                     suspicious_alerts)
            IN  /\ csv' = [csv EXCEPT !.results = Tail(@)]
                /\ high_risk_transactions' = routed.high
                /\ suspicious_alerts' = routed.susp
  /\ UNCHANGED <<scored, live_transactions, fraud_history, streamVars>>

(***************************************************************************)
(* The program: the request handlers, the monitoring threads, the chain.   *)
(* Its behaviours are explored in two parts, SpecStream (overlapping       *)
(* monitoring threads, no upload) and SpecOneThread (uploads, one          *)
(* monitoring thread at a time, a longer chain).                           *)
(***************************************************************************)
Next ==
  \/ ChainAdvance
  \/ StartMonitoring
  \/ StopMonitoring
  \/ \E w \in Workers : LoopHead(w)
  \/ \E w \in Workers : BlockStep(w)
  \/ \E w \in Workers : TxFetch(w)
  \/ \E w \in Workers : TxProcess(w)
  \/ \E w \in Workers : DrainStep(w)
  \/ \E w \in Workers : CleanupStep(w)
  \/ CsvAnalyze
  \/ CsvAlertStep

Spec == Init /\ [][Next]_vars

(***************************************************************************)
(* The streaming pipeline alone: the monitoring threads, the chain, start  *)
(* and stop.                                                               *)
(***************************************************************************)
NextStream ==
  \/ ChainAdvance
  \/ StartMonitoring
  \/ StopMonitoring
  \/ \E w \in Workers : LoopHead(w)
  \/ \E w \in Workers : BlockStep(w)
  \/ \E w \in Workers : TxFetch(w)
  \/ \E w \in Workers : TxProcess(w)
  \/ \E w \in Workers : DrainStep(w)
  \/ \E w \in Workers : CleanupStep(w)

SpecStream == Init /\ [][NextStream]_vars

(***************************************************************************)
(* The uploads and the streaming pipeline, in the runs where a start finds *)
(* no monitoring thread alive.                                             *)
(***************************************************************************)
NoThreadAlive == \A w \in Workers : worker[w].pc = "none"

NextOneThread ==
  \/ ChainAdvanceTo(MaxBlockOneThread)
  \/ NoThreadAlive /\ StartMonitoring
  \/ StopMonitoring
  \/ \E w \in Workers : LoopHead(w)
  \/ \E w \in Workers : BlockStep(w)
  \/ \E w \in Workers : TxFetch(w)
  \/ \E w \in Workers : TxProcess(w)
  \/ \E w \in Workers : DrainStep(w)
  \/ \E w \in Workers : CleanupStep(w)
  \/ CsvAnalyze
  \/ CsvAlertStep

SpecOneThread == Init /\ [][NextOneThread]_vars

(***************************************************************************)
(* The scoring branch of monitoring_loop statement by statement: the test  *)
(* of line 655, the scoring and hand-over of lines 659-662, and            *)
(* save_transaction_to_db with update_node_analysis, each on a connection  *)
(* of its own.  A thread's uncommitted rows (pending, a sequence of        *)
(* <<address id, row>>) are visible to itself only; the first write of a   *)
(* connection takes the database's write lock, which it holds until its    *)
(* commit or its close, and a write of another connection waits for it.    *)
(* The only failures here are the ones the interleaving produces.          *)
(***************************************************************************)
LockFree(w) == \A v \in Workers \ {w} : worker[v].pending = <<>>

RECURSIVE ApplyPending(_, _)
ApplyPending(rows, pending) ==
  IF pending = <<>>
    THEN rows
    ELSE ApplyPending([rows EXCEPT ![Head(pending)[1]] = Head(pending)[2]],
                      Tail(pending))

(* What a SELECT of thread w sees. *)
Visible(w) == ApplyPending(node_analysis, worker[w].pending)

(* The result the thread is persisting, and the i-th address of           *)
(* addresses = [tx_data['From'], tx_data['To']].                           *)
ResultOf(w) == process_transaction_data(TxOnChain(worker[w].tx))
AddressAt(w) == IF worker[w].i = 1 THEN ResultOf(w).From ELSE ResultOf(w).To

(* The next address of the for loop, or the commit after the last one. *)
NextAddress(w, rec) ==
  IF worker[w].i = 1
    THEN [rec EXCEPT !.pc = "select", !.i = 2, !.row = NoProfile]
    ELSE [rec EXCEPT !.pc = "commit", !.i = 0, !.row = NoProfile]

(* if tx_hash in processed_tx_hashes: continue *)
TxCheck(w) ==
  /\ At(w, "score")
  /\ IF AlreadyProcessed(worker[w].tx, processed_tx_hashes)
       THEN Goto(w, [worker[w] EXCEPT !.pc = "tx"])
       ELSE Goto(w, [worker[w] EXCEPT !.pc = "predict"])
  /\ UNCHANGED <<scored, bufferVars, active, connected, w3, current_block,
                 last_processed_block, total_processed, total_fraud,
                 transaction_queue, processed_tx_hashes, chain_head, node_analysis, csv>>

(* result = process_transaction_data(tx_data); if result: add, put. *)
TxScore(w) ==
  /\ At(w, "predict")
  /\ \E ok \in BOOLEAN :
       IF ok
         THEN /\ processed_tx_hashes' = processed_tx_hashes \cup {worker[w].tx}
              /\ transaction_queue' = Append(transaction_queue, ResultOf(w))
              /\ Goto(w, [worker[w] EXCEPT !.pc = "save"])
         ELSE /\ UNCHANGED <<processed_tx_hashes, transaction_queue>>
              /\ Goto(w, [worker[w] EXCEPT !.pc = "tx"])
  /\ UNCHANGED <<scored, bufferVars, active, connected, w3, current_block,
                 last_processed_block, total_processed, total_fraud,
                 chain_head, node_analysis, csv>>

(* save_transaction_to_db up to its commit: INSERT OR REPLACE INTO         *)
(* transactions, conn.commit(); then update_node_analysis is entered.      *)
SaveTransaction(w) ==
  /\ At(w, "save")
  /\ LockFree(w)
  /\ Goto(w, [worker[w] EXCEPT !.pc = "select", !.i = 1])
  /\ UNCHANGED <<scored, bufferVars, active, connected, w3, current_block,
                 last_processed_block, total_processed, total_fraud,
                 transaction_queue, processed_tx_hashes, chain_head, node_analysis, csv>>

(* The head of the for loop and the SELECT of the current stats;          *)
(* NoProfile stands for fetchone() returning None.                         *)
SelectRow(w) ==
  /\ At(w, "select")
  /\ IF AddressAt(w).id = NullAddress.id
       THEN Goto(w, NextAddress(w, worker[w]))
       ELSE Goto(w, [worker[w] EXCEPT !.pc = "write",
                                      !.row = Visible(w)[AddressAt(w).id]])
  /\ UNCHANGED <<scored, bufferVars, active, connected, w3, current_block,
                 last_processed_block, total_processed, total_fraud,
                 transaction_queue, processed_tx_hashes, chain_head, node_analysis, csv>>

(* The UPDATE of an existing row from the values read, or the INSERT of a  *)
(* new row; the INSERT of an address that has a row by now violates the    *)
(* UNIQUE constraint, the exception leaves update_node_analysis and the    *)
(* uncommitted rows are dropped with the connection.                       *)
WriteRow(w) ==
  /\ At(w, "write")
  /\ LockFree(w)
  /\ LET a == AddressAt(w)
         is_fraud == ResultOf(w).label = "Fraudulent"
         tx_value == ProfileAmount(ResultOf(w)).n
         new_row == IF worker[w].row = NoProfile
                      THEN InsertRow(is_fraud, tx_value)
                      ELSE UpdateStatement(Visible(w)[a.id],
                                           NewValues(worker[w].row, is_fraud, tx_value))
     IN  IF worker[w].row = NoProfile /\ Visible(w)[a.id] # NoProfile
           THEN Goto(w, [worker[w] EXCEPT !.pc = "tx", !.i = 0, !.row = NoProfile,
                                          !.pending = <<>>])
           ELSE Goto(w, NextAddress(w, [worker[w] EXCEPT
                                          !.pending = Append(@, <<a.id, new_row>>)]))
  /\ UNCHANGED <<scored, bufferVars, active, connected, w3, current_block,
                 last_processed_block, total_processed, total_fraud,
                 transaction_queue, processed_tx_hashes, chain_head, node_analysis, csv>>

(* conn.commit() of update_node_analysis. *)
CommitProfiles(w) ==
  /\ At(w, "commit")
  /\ node_analysis' = Visible(w)
  /\ Goto(w, [worker[w] EXCEPT !.pc = "tx", !.pending = <<>>])
  /\ UNCHANGED <<scored, bufferVars, active, connected, w3, current_block,
                 last_processed_block, total_processed, total_fraud,
                 transaction_queue, processed_tx_hashes, chain_head, csv>>

NextRace ==
  \/ ChainAdvanceTo(MaxBlockRace)
  \/ StartMonitoring
  \/ StopMonitoring
  \/ \E w \in Workers : LoopHead(w)
  \/ \E w \in Workers : BlockStep(w)
  \/ \E w \in Workers : TxFetchFrom(w, FirstTxRace .. NumTxRace)
  \/ \E w \in Workers : TxCheck(w)
  \/ \E w \in Workers : TxScore(w)
  \/ \E w \in Workers : SaveTransaction(w)
  \/ \E w \in Workers : SelectRow(w)
  \/ \E w \in Workers : WriteRow(w)
  \/ \E w \in Workers : CommitProfiles(w)
  \/ \E w \in Workers : DrainStep(w)
  \/ \E w \in Workers : CleanupStep(w)

SpecRace == Init /\ [][NextRace]_vars

(***************************************************************************)
(* flag_node (POST /api/nodes/<address>/flag): one UPDATE of is_flagged on  *)
(* a connection of its own, committed at once.  It waits while a thread    *)
(* holds the write lock; an address with no row matches nothing.  The    *)
(* requests are explored against one monitoring thread at a time, whose   *)
(* SELECT, UPDATE or INSERT, and commit they interleave with.              *)
(***************************************************************************)
FlagRequests == {AddrPlainA, AddrPlainB}

FlagNode ==
  /\ \A w \in Workers : worker[w].pending = <<>>
  /\ \E address \in FlagRequests, flagged \in BOOLEAN :
       node_analysis' =
         [node_analysis EXCEPT ![address.id] =
            IF @ = NoProfile THEN @ ELSE [@ EXCEPT !.is_flagged = flagged]]
  /\ UNCHANGED <<scored, bufferVars, active, connected, w3, current_block,
                 last_processed_block, total_processed, total_fraud,
                 transaction_queue, processed_tx_hashes, chain_head, worker, csv>>

NextFlag ==
  \/ ChainAdvanceTo(MaxBlockFlag)
  \/ NoThreadAlive /\ StartMonitoring
  \/ StopMonitoring
  \/ \E w \in Workers : LoopHead(w)
  \/ \E w \in Workers : BlockStep(w)
  \/ \E w \in Workers : TxFetchFrom(w, FirstTxRace .. NumTxRace)
  \/ \E w \in Workers : TxCheck(w)
  \/ \E w \in Workers : TxScore(w)
  \/ \E w \in Workers : SaveTransaction(w)
  \/ \E w \in Workers : SelectRow(w)
  \/ \E w \in Workers : WriteRow(w)
  \/ \E w \in Workers : CommitProfiles(w)
  \/ \E w \in Workers : DrainStep(w)
  \/ \E w \in Workers : CleanupStep(w)
  \/ FlagNode

SpecFlag == Init /\ [][NextFlag]_vars

(***************************************************************************)
(* Specification of the scoring functions alone.                           *)
(***************************************************************************)
(***************************************************************************)
(* A whole upload as a function of its rows: the results of the analyser   *)
(* analyze_csv selects (lines 1659-1672) and generate_report over them.    *)
(* UploadedModel(k) is the output of the ensemble's sub-models for row k.  *)
(***************************************************************************)
UploadedModel(k) ==
  CASE k = 1 -> [p1 |-> 1000, p2 |-> 1000, w1 |-> 500, thr |-> 500]
    [] k = 2 -> [p1 |-> 500, p2 |-> 1000, w1 |-> 500, thr |-> 500]
    [] OTHER -> [p1 |-> 0, p2 |-> 0, w1 |-> 500, thr |-> 500]

analyze_with_ensemble_system(file) ==
  [i \in 1 .. Len(file) |->
     analyze_with_ensemble_row(UploadedRow(file[i]), UploadedModel(file[i]))]

CountIf(results, Test(_)) == Cardinality({i \in 1 .. Len(results) : Test(results[i])})

generate_report(results) ==
  LET blocked == CountIf(results, LAMBDA r : r.risk_score >= BlockThreshold)
      flagged == CountIf(results, LAMBDA r : /\ SuspiciousThreshold <= r.risk_score
                                             /\ r.risk_score < BlockThreshold)
      approved == CountIf(results, LAMBDA r : r.risk_score < SuspiciousThreshold)
  IN  [total_transactions |-> Len(results), blocked |-> blocked, flagged |-> flagged,
       suspicious |-> flagged, approved |-> approved]

(***************************************************************************)
(* The response of analyze_csv.  float(row['Value']) is outside any try in *)
(* the row loops (lines 307, 1382): on a cell it cannot parse the ensemble *)
(* analysis falls back to csv_analyzer.analyze_transactions (line 393),    *)
(* which raises at line 1382, the fallback of analyze_csv (line 1671)      *)
(* raises again and the handler of line 1742 answers 500.                  *)
(***************************************************************************)
WellFormed(file) == \A i \in 1 .. Len(file) : ParsesAsFloat(UploadedRow(file[i]).Value)
AnalysisFailed == [status |-> 500, results |-> <<>>, report |-> generate_report(<<>>)]

(* The columns show_csv_scoring requires (app.py:525), and row i of a file *)
(* without one of them as csv_analyzer.analyze_transactions reads it:     *)
(* tx_id f"tx_{idx}" (held as -i), a random address, amount 0, block      *)
(* height 0; a missing TimeStamp changes no field of the model.            *)
RequiredColumns == {"TxHash", "BlockHeight", "TimeStamp", "From", "To", "Value"}
RandomAddress == [id |-> 5, pat |-> FALSE, end0 |-> FALSE, zeros |-> FALSE]
ReadRow(k, missing, i) ==
  LET row == UploadedRow(k)
  IN  CASE missing = "TxHash" -> [row EXCEPT !.TxHash = -i]
        [] missing = "From" -> [row EXCEPT !.From = RandomAddress]
        [] missing = "To" -> [row EXCEPT !.To = RandomAddress]
        [] missing = "Value" -> [row EXCEPT !.Value = [n |-> 0, d |-> AmountDen]]
        [] missing = "BlockHeight" -> [row EXCEPT !.BlockHeight = 0]
        [] OTHER -> row

(* analyze_csv on a file that has every column, and on one that lacks the *)
(* column missing: the ensemble loop then raises KeyError, its handler     *)
(* (lines 390-393) and the one of analyze_csv (lines 1667-1671) call       *)
(* csv_analyzer.analyze_transactions, which substitutes defaults.          *)
analyze_csv(file, ensemble, missing) ==
  IF missing = "none"
    THEN IF ~WellFormed(file) THEN AnalysisFailed
         ELSE LET results == IF ensemble THEN analyze_with_ensemble_system(file)
                             ELSE analyze_transactions(file)
              IN  [status |-> 200, results |-> results,
                   report |-> generate_report(results)]
    ELSE IF missing # "Value" /\ ~WellFormed(file) THEN AnalysisFailed
         ELSE LET results == [i \in 1 .. Len(file) |->
                                analyze_transactions_row(ReadRow(file[i], missing, i))]
              IN  [status |-> 200, results |-> results,
                   report |-> generate_report(results)]

BatchFiles == UNION { [1 .. n -> {1, 2, 3, 4}] : n \in 1 .. MaxBatchRows }

BatchInputs ==
  { [path |-> "input", fn |-> "batch",
     arg |-> [file |-> f, ensemble |-> e, missing |-> m]] :
      f \in BatchFiles, e \in BOOLEAN, m \in {"none"} \cup RequiredColumns }

ScoreBatch ==
  /\ Pending("batch")
  /\ LET response == analyze_csv(scored.arg.file, scored.arg.ensemble,
                                 scored.arg.missing)
     IN  scored' = [path |-> "batch", arg |-> scored.arg, status |-> response.status,
                    results |-> response.results, report |-> response.report]
  /\ UNCHANGED <<bufferVars, streamVars, csv>>

NextScore ==
  \/ ScoreBatch
  \/ Classify
  \/ ScoreStreaming
  \/ ScoreBackend
  \/ ScoreRuleBased
  \/ ScoreEnsemble

InitScore == scored \in ScoreInputs \cup BatchInputs /\ InitState

SpecScore == InitScore /\ [][NextScore]_vars

(***************************************************************************)
(* C1: get_risk_level_and_action is total on the integers and returns      *)
(* BLOCKED for every score >= 80, SUSPICIOUS for 65..79, APPROVED below    *)
(* 65; triggers_alert is true exactly for SUSPICIOUS.                      *)
(***************************************************************************)
C1_Classifier ==
  scored.path = "classify" =>
    /\ scored.info.level \in {"BLOCKED", "SUSPICIOUS", "APPROVED"}
    /\ (scored.risk_score >= 80 <=> scored.info.level = "BLOCKED")
    /\ (scored.risk_score >= 65 /\ scored.risk_score <= 79
          <=> scored.info.level = "SUSPICIOUS")
    /\ (scored.risk_score < 65 <=> scored.info.level = "APPROVED")
    /\ (scored.risk_score = 64 => scored.info.level = "APPROVED")
    /\ (scored.risk_score = 65 => scored.info.level = "SUSPICIOUS")
    /\ (scored.risk_score = 79 => scored.info.level = "SUSPICIOUS")
    /\ (scored.risk_score = 80 => scored.info.level = "BLOCKED")
    /\ (scored.info.triggers_alert <=> scored.info.level = "SUSPICIOUS")

C1_Witness ==
  /\ scored.path = "classify"
  /\ scored.risk_score = 65
  /\ scored.info.level = "SUSPICIOUS"
  /\ scored.info.triggers_alert

(***************************************************************************)
(* C2: on every scoring path the reported tier of a scored transaction is  *)
(* the classifier's tier of the reported risk score of that record.  The   *)
(* labels of backend.get_fraud_label are read as tiers by TierOfLabel.     *)
(***************************************************************************)
TierOfLabel(label) ==
  CASE label = "Fraudulent" -> "BLOCKED"
    [] label = "Suspicious" -> "SUSPICIOUS"
    [] label = "Normal" -> "APPROVED"
    [] OTHER -> label

C2_TierIsFunctionOfReportedScore ==
  scored.path \in {"streaming", "rule", "ensemble"} =>
    TierOfLabel(scored.tier) = get_risk_level_and_action(scored.risk_score).level

(***************************************************************************)
(* C3: where a fraud probability p is reported (streaming and ensemble     *)
(* paths), risk_score = floor(p * 100).                                    *)
(***************************************************************************)
C3_ScoreIsFloorOfProbability ==
  scored.path \in {"streaming", "ensemble"} =>
    scored.risk_score = Floor(scored.fraud_probability * 100, 1000)

C3_Witness ==
  /\ scored.path = "streaming"
  /\ scored.fraud_probability = 655
  /\ scored.risk_score = 65

(***************************************************************************)
(* C4: on every scoring path the reported risk_score is an integer in      *)
(* 0..100; the rule-based points are capped at 100.                        *)
(***************************************************************************)
C4_ScoreInRange ==
  scored.path \in {"streaming", "rule", "ensemble"} =>
    scored.risk_score \in 0 .. 100

C4_Witness ==
  /\ scored.path = "rule"
  /\ rule_points_final(scored.arg) > 1000
  /\ scored.risk_score = 100

(***************************************************************************)
(* Steps of the monitoring threads and of the upload, as the claims below  *)
(* refer to them.                                                          *)
(***************************************************************************)
StepOf(w) == worker'[w] # worker[w]

(* One queue entry is taken and appended to the buffers. *)
DrainAppend ==
  /\ transaction_queue # <<>>
  /\ transaction_queue' = Tail(transaction_queue)

(* One result of the upload goes through the alert loop. *)
CsvAppend ==
  /\ csv.pc = "alerts"
  /\ csv.results # <<>>
  /\ csv' # csv

(***************************************************************************)
(* C5: a transaction hash presented to the monitoring thread while it is   *)
(* in processed_tx_hashes is skipped: the step changes neither the set,    *)
(* the queue, the address profiles, total_processed, total_fraud nor any   *)
(* buffer.  A hash that is not in the set is scored at most once by the    *)
(* step (one queue entry, carrying that hash, and the hash enters the      *)
(* set), and every queue entry is counted once when it is drained.         *)
(***************************************************************************)
C5_DedupIdempotence ==
  [][/\ \A w \in Workers :
          (worker[w].pc = "score" /\ StepOf(w)) =>
            IF worker[w].tx \in processed_tx_hashes
              THEN UNCHANGED <<processed_tx_hashes, transaction_queue, node_analysis,
                               total_processed, total_fraud, bufferVars>>
              ELSE /\ UNCHANGED <<total_processed, total_fraud, bufferVars>>
                   /\ \/ UNCHANGED <<processed_tx_hashes, transaction_queue, node_analysis>>
                      \/ /\ processed_tx_hashes' = processed_tx_hashes \cup {worker[w].tx}
                         /\ Len(transaction_queue') = Len(transaction_queue) + 1
                         /\ SubSeq(transaction_queue', 1, Len(transaction_queue))
                              = transaction_queue
                         /\ transaction_queue'[Len(transaction_queue')].TxHash = worker[w].tx
     /\ IF DrainAppend
          THEN /\ total_processed' = total_processed + 1
               /\ total_fraud' = total_fraud
                    + (IF Head(transaction_queue).label = "Fraudulent" THEN 1 ELSE 0)
               /\ Head(live_transactions') = Head(transaction_queue)
          ELSE UNCHANGED <<total_processed, total_fraud, live_transactions>>
    ]_vars

(* The thread has just skipped a hash: it is back in the sample loop with  *)
(* nothing enqueued in this cycle, and the hash it was given is in the set *)
(* and was counted once.                                                   *)
C5_Witness ==
  \E w \in Workers :
    /\ worker[w].pc = "tx"
    /\ worker[w].txi = 1
    /\ worker[w].tx \in processed_tx_hashes
    /\ transaction_queue = <<>>
    /\ total_processed = 1
    /\ Len(live_transactions) = 1
    /\ live_transactions[1].TxHash = worker[w].tx
    /\ node_analysis[live_transactions[1].From.id].total_transactions = 1

(***************************************************************************)
(* C6: the cleanup step of a monitoring cycle replaces processed_tx_hashes *)
(* by the hashes of the first KeepRecent entries of the live feed (all of  *)
(* them when it holds fewer) when the set holds more than DedupLimit       *)
(* entries, and leaves the set unchanged otherwise.                        *)
(***************************************************************************)
C6_CompactionPolicy ==
  [][\A w \in Workers :
       (worker[w].pc = "cleanup" /\ StepOf(w)) =>
         IF Cardinality(processed_tx_hashes) > DedupLimit
           THEN processed_tx_hashes' =
                  { live_transactions[i].TxHash :
                      i \in 1 .. Min(KeepRecent, Len(live_transactions)) }
           ELSE processed_tx_hashes' = processed_tx_hashes
    ]_vars

(* After a compaction: more transactions were scored than the set holds,   *)
(* and the set is the hashes of the live feed.                             *)
C6_Witness ==
  /\ total_processed + Len(transaction_queue) > DedupLimit
  /\ Cardinality(processed_tx_hashes) < total_processed + Len(transaction_queue)
  /\ processed_tx_hashes = HashesOf(live_transactions)
  /\ Cardinality(processed_tx_hashes) = Min(KeepRecent, LiveCap)
  /\ \E w \in Workers : worker[w].pc = "loop"

(***************************************************************************)
(* C7: processed_tx_hashes never holds more than DedupLimit entries plus   *)
(* the most one cycle can score (BlockWindow blocks of SampleSize          *)
(* transactions), and holds at most DedupLimit entries after the cleanup   *)
(* step of every cycle.                                                    *)
(***************************************************************************)
MaxScoredPerCycle == BlockWindow * SampleSize

C7_DedupMemoryBound ==
  /\ [](Cardinality(processed_tx_hashes) <= DedupLimit + MaxScoredPerCycle)
  /\ [][\A w \in Workers :
          (worker[w].pc = "cleanup" /\ StepOf(w)) =>
            Cardinality(processed_tx_hashes') <= DedupLimit]_vars

(***************************************************************************)
(* The entries one step hands to the alert branch (the drained queue entry *)
(* or the upload's current result), and how many of them a buffer takes.   *)
(***************************************************************************)
Routed ==
  IF DrainAppend THEN <<Head(transaction_queue)>>
  ELSE IF CsvAppend THEN <<Head(csv.results)>>
  ELSE <<>>

InHighRange(tx) == tx.risk_score >= BlockThreshold
InSuspiciousRange(tx) ==
  tx.risk_score >= SuspiciousThreshold /\ tx.risk_score < BlockThreshold

NumHigh == Cardinality({ i \in 1 .. Len(Routed) : InHighRange(Routed[i]) })
NumSuspicious == Cardinality({ i \in 1 .. Len(Routed) : InSuspiciousRange(Routed[i]) })
NumLive == IF DrainAppend THEN 1 ELSE 0

NewestFirst(old, new, x, cap) ==
  /\ Len(new) = Min(Len(old) + 1, cap)
  /\ new[1] = x
  /\ \A i \in 2 .. Len(new) : new[i] = old[i - 1]

MostRecentInOrder(old, new, x, cap) ==
  /\ Len(new) = Min(Len(old) + 1, cap)
  /\ new[Len(new)] = x
  /\ \A i \in 1 .. Len(new) - 1 : new[i] = old[i + (Len(old) + 1 - Len(new))]

C9_RetentionOrder ==
  [][/\ DrainAppend =>
          /\ NewestFirst(live_transactions, live_transactions',
                         Head(transaction_queue), LiveCap)
          /\ MostRecentInOrder(fraud_history, fraud_history',
                               Head(transaction_queue).fraud_probability, LiveCap)
     /\ \A i \in 1 .. Len(Routed) :
          /\ InHighRange(Routed[i]) =>
               NewestFirst(high_risk_transactions, high_risk_transactions',
                           Routed[i], HighCap)
          /\ InSuspiciousRange(Routed[i]) =>
               /\ suspicious_alerts'[1].tx = Routed[i]
               /\ NewestFirst(suspicious_alerts, suspicious_alerts',
                              suspicious_alerts'[1], SuspCap)
    ]_vars

(* Three entries were drained into buffers of two: the feed shows the last *)
(* two, newest first, and the history their probabilities, oldest first.   *)
C9_Witness ==
  /\ total_processed = LiveCap + 1
  /\ Len(live_transactions) = LiveCap
  /\ fraud_history = [i \in 1 .. LiveCap |->
                        live_transactions[LiveCap + 1 - i].fraud_probability]
  /\ fraud_history[1] # fraud_history[LiveCap]
  /\ Len(suspicious_alerts) = SuspCap
  /\ suspicious_alerts[1].alert_type # suspicious_alerts[SuspCap].alert_type

(***************************************************************************)
(* C10: every entry of the high-risk buffer has tier BLOCKED and a         *)
(* risk_score of at least 80, every entry of the suspicious-alert buffer   *)
(* has tier SUSPICIOUS and a risk_score in 65..79 (so no APPROVED          *)
(* transaction is in either), and no transaction is in both.  The tier of  *)
(* an entry is the tier its record reports (its label, read by             *)
(* TierOfLabel).                                                           *)
(***************************************************************************)
C10_RoutedByScore ==
  /\ \A i \in 1 .. Len(high_risk_transactions) :
       InHighRange(high_risk_transactions[i])
  /\ \A i \in 1 .. Len(suspicious_alerts) :
       InSuspiciousRange(suspicious_alerts[i].tx)
  /\ HashesOf(high_risk_transactions)
       \cap { suspicious_alerts[i].tx.TxHash : i \in 1 .. Len(suspicious_alerts) } = {}

C10_AlertRoutingByTier ==
  /\ C10_RoutedByScore
  /\ \A i \in 1 .. Len(high_risk_transactions) :
       TierOfLabel(high_risk_transactions[i].label) = "BLOCKED"
  /\ \A i \in 1 .. Len(suspicious_alerts) :
       TierOfLabel(suspicious_alerts[i].tx.label) = "SUSPICIOUS"


(***************************************************************************)
(* The appends to the alert buffers statement by statement: insert(0, x)   *)
(* and the pop() under 'if len(..) > capacity' are two statements, in the  *)
(* drain of monitoring_loop and in the alert loop of analyze_csv, which    *)
(* runs on a request thread of its own (app.run(threaded=True)).  The      *)
(* states between the two statements are the ones a request that reads     *)
(* the buffers can see.                                                    *)
(***************************************************************************)
InsertOnly(buf, x) == <<x>> \o buf
TrimLast(buf, cap) == IF Len(buf) > cap THEN DropLast(buf) ELSE buf

RouteInsert(tx, alert_type, high, susp) ==
  IF tx.risk_score >= BlockThreshold
    THEN [high |-> InsertOnly(high, tx), susp |-> susp]
    ELSE IF tx.risk_score >= SuspiciousThreshold
      THEN [high |-> high, susp |-> InsertOnly(susp, Alert(tx, alert_type))]
      ELSE [high |-> high, susp |-> susp]

RouteTrim(risk_score, high, susp) ==
  IF risk_score >= BlockThreshold
    THEN [high |-> TrimLast(high, HighCap), susp |-> susp]
    ELSE IF risk_score >= SuspiciousThreshold
      THEN [high |-> high, susp |-> TrimLast(susp, SuspCap)]
      ELSE [high |-> high, susp |-> susp]

(* The drain up to the insert into the alert buffer (lines 681-699, 711). *)
DrainInsert(w) ==
  /\ At(w, "drain")
  /\ IF transaction_queue = <<>>
       THEN /\ Goto(w, [worker[w] EXCEPT !.pc = "cleanup"])
            /\ UNCHANGED <<bufferVars, total_processed, total_fraud, transaction_queue>>
       ELSE LET tx == Head(transaction_queue)
                routed == RouteInsert(tx, "SUSPICIOUS", high_risk_transactions,
                                      suspicious_alerts)
            IN  /\ transaction_queue' = Tail(transaction_queue)
                /\ live_transactions' = InsertNewest(live_transactions, tx, LiveCap)
                /\ fraud_history' = AppendFifo(fraud_history, tx.fraud_probability, LiveCap)
                /\ total_processed' = total_processed + 1
                /\ total_fraud' = total_fraud + (IF tx.label = "Fraudulent" THEN 1 ELSE 0)
                /\ high_risk_transactions' = routed.high
                /\ suspicious_alerts' = routed.susp
                /\ Goto(w, [worker[w] EXCEPT !.pc = "trim", !.tx = tx.TxHash])
  /\ UNCHANGED <<scored, active, connected, w3, current_block, last_processed_block,
                 processed_tx_hashes, chain_head, node_analysis, csv>>

(* if len(..) > capacity: pop() (lines 700-701, 713-714). *)
DrainTrim(w) ==
  /\ At(w, "trim")
  /\ LET routed == RouteTrim(ResultOf(w).risk_score, high_risk_transactions,
                             suspicious_alerts)
     IN  /\ high_risk_transactions' = routed.high
         /\ suspicious_alerts' = routed.susp
  /\ Goto(w, [worker[w] EXCEPT !.pc = "drain", !.tx = 0])
  /\ UNCHANGED <<scored, live_transactions, fraud_history, active, connected, w3,
                 current_block, last_processed_block, total_processed, total_fraud,
                 transaction_queue, processed_tx_hashes, chain_head, node_analysis, csv>>

(* The alert loop of analyze_csv up to the insert (lines 1679-1685, 1698). *)
CsvInsert ==
  /\ csv.pc = "alerts"
  /\ IF csv.results = <<>>
       THEN /\ csv' = NoCsv
            /\ UNCHANGED <<high_risk_transactions, suspicious_alerts>>
       ELSE LET routed == RouteInsert(Head(csv.results), "SUSPICIOUS_CSV",
                                      high_risk_transactions, suspicious_alerts)
            IN  /\ csv' = [csv EXCEPT !.pc = "trim"]
                /\ high_risk_transactions' = routed.high
                /\ suspicious_alerts' = routed.susp
  /\ UNCHANGED <<scored, live_transactions, fraud_history, streamVars>>

(* if len(..) > capacity: pop() (lines 1686-1687, 1699-1700). *)
CsvTrim ==
  /\ csv.pc = "trim"
  /\ LET routed == RouteTrim(Head(csv.results).risk_score, high_risk_transactions,
                             suspicious_alerts)
     IN  /\ high_risk_transactions' = routed.high
         /\ suspicious_alerts' = routed.susp
  /\ csv' = [pc |-> "alerts", results |-> Tail(csv.results)]
  /\ UNCHANGED <<scored, live_transactions, fraud_history, streamVars>>

NextAppend ==
  \/ ChainAdvance
  \/ NoThreadAlive /\ StartMonitoring
  \/ StopMonitoring
  \/ \E w \in Workers : LoopHead(w)
  \/ \E w \in Workers : BlockStep(w)
  \/ \E w \in Workers : TxFetch(w)
  \/ \E w \in Workers : TxProcess(w)
  \/ \E w \in Workers : DrainInsert(w)
  \/ \E w \in Workers : DrainTrim(w)
  \/ \E w \in Workers : CleanupStep(w)
  \/ CsvAnalyze
  \/ CsvInsert
  \/ CsvTrim

SpecAppend == Init /\ [][NextAppend]_vars

(***************************************************************************)
(* The drain with its counters statement by statement.  get_nowait() and   *)
(* the list operations of lines 681-691 are one step; the += of line 694   *)
(* and the one of line 696 are each a read of the counter into a register  *)
(* of the thread (reg) and a later write of the register plus one, between *)
(* which another thread can run.                                           *)
(***************************************************************************)
DrainTake(w) ==
  /\ At(w, "drain")
  /\ IF transaction_queue = <<>>
       THEN /\ Goto(w, [worker[w] EXCEPT !.pc = "cleanup"])
            /\ UNCHANGED <<live_transactions, fraud_history, transaction_queue>>
       ELSE LET tx == Head(transaction_queue)
            IN  /\ transaction_queue' = Tail(transaction_queue)
                /\ live_transactions' = InsertNewest(live_transactions, tx, LiveCap)
                /\ fraud_history' = AppendFifo(fraud_history, tx.fraud_probability, LiveCap)
                /\ Goto(w, [worker[w] EXCEPT !.pc = "count", !.tx = tx.TxHash,
                                               !.reg = total_processed])
  /\ UNCHANGED <<scored, high_risk_transactions, suspicious_alerts, active, connected,
                 w3, current_block, last_processed_block, total_processed, total_fraud,
                 processed_tx_hashes, chain_head, node_analysis, csv>>

(* The store of total_processed, and the load of total_fraud. *)
DrainCount(w) ==
  /\ At(w, "count")
  /\ total_processed' = worker[w].reg + 1
  /\ Goto(w, [worker[w] EXCEPT !.pc = "fraud", !.reg = total_fraud])
  /\ UNCHANGED <<scored, bufferVars, active, connected, w3, current_block,
                 last_processed_block, total_fraud, transaction_queue,
                 processed_tx_hashes, chain_head, node_analysis, csv>>

(* The store of total_fraud for a 'Fraudulent' entry, and the alert        *)
(* buffers of lines 698-714.                                               *)
DrainFraud(w) ==
  /\ At(w, "fraud")
  /\ LET tx == ResultOf(w)
         routed == RouteAlert(tx, "SUSPICIOUS", high_risk_transactions, suspicious_alerts)
     IN  /\ total_fraud' = IF tx.label = "Fraudulent" THEN worker[w].reg + 1
                           ELSE total_fraud
         /\ high_risk_transactions' = routed.high
         /\ suspicious_alerts' = routed.susp
  /\ Goto(w, [worker[w] EXCEPT !.pc = "drain", !.tx = 0, !.reg = 0])
  /\ UNCHANGED <<scored, live_transactions, fraud_history, active, connected, w3,
                 current_block, last_processed_block, total_processed, transaction_queue,
                 processed_tx_hashes, chain_head, node_analysis, csv>>

NextDrain ==
  \/ ChainAdvanceTo(MaxBlockDrain)
  \/ StartMonitoring
  \/ StopMonitoring
  \/ \E w \in Workers : LoopHead(w)
  \/ \E w \in Workers : BlockStep(w)
  \/ \E w \in Workers : TxFetchFrom(w, FirstTxRace .. NumTxRace)
  \/ \E w \in Workers : TxProcess(w)
  \/ \E w \in Workers : DrainTake(w)
  \/ \E w \in Workers : DrainCount(w)
  \/ \E w \in Workers : DrainFraud(w)
  \/ \E w \in Workers : CleanupStep(w)

SpecDrain == Init /\ [][NextDrain]_vars

(***************************************************************************)
(* The monitoring threads under fair scheduling, with the failures the     *)
(* loop catches.  The outer handler of monitoring_loop (lines 732-734)     *)
(* prints the error and sleeps 5 s, after which the while test is          *)
(* evaluated again; pc "backoff" is that sleep.  A failed get_block and a  *)
(* failed scoring are the ok = FALSE cases of BlockStep and TxProcess.     *)
(***************************************************************************)
OnErrorDie(w) == Goto(w, NoWorker)

OnError(w) == Goto(w, [NoWorker EXCEPT !.pc = "backoff"])

(* w3.eth.block_number raises (line 610). *)
HeadReadFails(w) ==
  /\ At(w, "loop")
  /\ active /\ w3 /\ connected
  /\ OnError(w)
  /\ UNCHANGED <<scored, bufferVars, active, connected, w3, current_block,
                 last_processed_block, total_processed, total_fraud,
                 transaction_queue, processed_tx_hashes, chain_head, node_analysis, csv>>

(* A statement of the drain raises after get_nowait() has taken the entry  *)
(* (lines 681-714): only queue.Empty is handled inside, anything else      *)
(* reaches the outer handler and the cleanup of this cycle is skipped.     *)
DrainRaise(w) ==
  /\ At(w, "drain")
  /\ transaction_queue # <<>>
  /\ transaction_queue' = Tail(transaction_queue)
  /\ OnError(w)
  /\ UNCHANGED <<scored, bufferVars, active, connected, w3, current_block,
                 last_processed_block, total_processed, total_fraud,
                 processed_tx_hashes, chain_head, node_analysis, csv>>

(* time.sleep(5) of the handler returns (line 734). *)
BackOff(w) ==
  /\ At(w, "backoff")
  /\ Goto(w, [worker[w] EXCEPT !.pc = "loop"])
  /\ UNCHANGED <<scored, bufferVars, active, connected, w3, current_block,
                 last_processed_block, total_processed, total_fraud,
                 transaction_queue, processed_tx_hashes, chain_head, node_analysis, csv>>

(* One step of thread w. *)
ThreadStep(w) ==
  \/ LoopHead(w)
  \/ HeadReadFails(w)
  \/ BlockStep(w)
  \/ TxFetch(w)
  \/ TxProcess(w)
  \/ DrainStep(w)
  \/ DrainRaise(w)
  \/ CleanupStep(w)
  \/ BackOff(w)

NextFair ==
  \/ ChainAdvanceTo(MaxBlockFair)
  \/ StartMonitoring
  \/ StopMonitoring
  \/ \E w \in Workers : LoopHead(w)
  \/ \E w \in Workers : HeadReadFails(w)
  \/ \E w \in Workers : BlockStep(w)
  \/ \E w \in Workers : TxFetch(w)
  \/ \E w \in Workers : TxProcess(w)
  \/ \E w \in Workers : DrainStep(w)
  \/ \E w \in Workers : DrainRaise(w)
  \/ \E w \in Workers : CleanupStep(w)
  \/ \E w \in Workers : BackOff(w)

(* A started thread is scheduled again and again and its sleeps return. *)
SpecFair ==
  /\ Init
  /\ [][NextFair]_vars
  /\ \A w \in Workers : WF_vars(ThreadStep(w))

(***************************************************************************)
(* C11.  Each execution of update_node_analysis adds exactly 1 to the      *)
(* transaction count of the sender's profile and 1 to the receiver's (a    *)
(* profile seen for the first time is created with count 1), and never     *)
(* creates or changes a profile of the null address: the step that ends    *)
(* an execution leaves every address's count at its value before the step  *)
(* plus the number of roles the address has in the transaction.            *)
(***************************************************************************)
InUpdate(w) == worker[w].pc \in {"select", "write", "commit"}
EndsUpdate(w) == InUpdate(w) /\ worker'[w].pc = "tx"
Roles(a, tx_data) ==
  (IF tx_data.From.id = a THEN 1 ELSE 0) + (IF tx_data.To.id = a THEN 1 ELSE 0)

C11_ProfileIncrements ==
  [][\A w \in Workers :
       EndsUpdate(w) =>
         /\ node_analysis'[NullAddress.id] = NoProfile
         /\ \A a \in DOMAIN node_analysis \ {NullAddress.id} :
              node_analysis'[a].total_transactions =
                node_analysis[a].total_transactions + Roles(a, ResultOf(w))]_vars


(***************************************************************************)
(* C12.  The fraud count and the fraud value of a profile grow with a      *)
(* transaction exactly when its tier is not APPROVED (risk_score >= 65):   *)
(* a persisting step adds 1 per role to fraud_transactions and the value   *)
(* per role to fraud_value of the sender when the score is 65 or more, and *)
(* leaves both unchanged when it is below 65.                              *)
(***************************************************************************)
Persists(w) ==
  /\ StepOf(w)
  /\ worker[w].pc = "score"
  /\ node_analysis' # node_analysis

FraudGrowth(w, counted(_)) ==
  LET result == process_transaction_data(TxOnChain(worker[w].tx))
      a == result.From.id
      k == IF counted(result) THEN Roles(a, result) ELSE 0
  IN  /\ node_analysis'[a].fraud_transactions = node_analysis[a].fraud_transactions + k
      /\ node_analysis'[a].fraud_value = node_analysis[a].fraud_value + k * result.Value.n

NotApproved(result) == get_risk_level_and_action(result.risk_score).level # "APPROVED"
LabelledFraudulent(result) == result.risk_score >= BlockThreshold

C12_FraudCountedWhenNotApproved ==
  [][\A w \in Workers : Persists(w) => FraudGrowth(w, NotApproved)]_vars

(* What the code does: the growth follows the label, Fraudulent from 80. *)
C12_FraudCountedWhenFraudulent ==
  [][\A w \in Workers : Persists(w) => FraudGrowth(w, LabelledFraudulent)]_vars


(***************************************************************************)
(* C13.  No update of a profile is lost, whatever the interleaving of the  *)
(* executions of update_node_analysis: once no execution is in progress,   *)
(* the count of every address is the number of roles it has in the         *)
(* transactions handed over so far (two first sightings of an address      *)
(* leave one row whose count is 2).  The transactions handed over are the  *)
(* queue and the live feed, as long as the feed has evicted nothing.       *)
(***************************************************************************)
Persisting(w) == worker[w].pc \in {"save", "select", "write", "commit"}
Quiescent == \A w \in Workers : ~Persisting(w)
HandedOver == transaction_queue \o live_transactions

RECURSIVE SumRoles(_, _)
SumRoles(a, txs) ==
  IF txs = <<>> THEN 0 ELSE Roles(a, Head(txs)) + SumRoles(a, Tail(txs))

C13_NoLostUpdate ==
  (Quiescent /\ total_processed <= LiveCap) =>
    \A a \in DOMAIN node_analysis \ {NullAddress.id} :
      node_analysis[a].total_transactions = SumRoles(a, HandedOver)


(***************************************************************************)
(* C14.  The membership test of processed_tx_hashes and the insertion are  *)
(* atomic: a hash that is scored, inserted and enqueued is not in the set  *)
(* at the moment of its insertion, so that no hash passes the test twice.  *)
(***************************************************************************)
Enqueues(w) ==
  /\ StepOf(w)
  /\ worker[w].pc = "predict"
  /\ transaction_queue' # transaction_queue

C14_CheckAndInsertAtomic ==
  [][\A w \in Workers : Enqueues(w) => worker[w].tx \notin processed_tx_hashes]_vars


(***************************************************************************)
(* C15.  The appends of the drain and of the upload to the high-risk and   *)
(* suspicious-alert buffers are atomic: no buffer is ever seen above its   *)
(* capacity, and a step changes a buffer only by putting one entry in      *)
(* front or by removing its last (oldest) entry.                           *)
(***************************************************************************)
FrontInsertOrOldestOut(old, new) ==
  \/ new = old
  \/ Len(new) = Len(old) + 1 /\ SubSeq(new, 2, Len(new)) = old
  \/ Len(old) > 0 /\ new = DropLast(old)

(* The eviction order alone, which the code keeps. *)
C15_OnlyOldestEvicted ==
  [][/\ FrontInsertOrOldestOut(high_risk_transactions, high_risk_transactions')
     /\ FrontInsertOrOldestOut(suspicious_alerts, suspicious_alerts')]_vars

C15_AppendsAtomic ==
  /\ [](/\ Len(high_risk_transactions) <= HighCap
        /\ Len(suspicious_alerts) <= SuspCap)
  /\ C15_OnlyOldestEvicted


(***************************************************************************)
(* C16.  At most one monitoring_loop thread exists at any time, under      *)
(* every sequence of start and stop requests, a stop immediately followed  *)
(* by a start included.                                                    *)
(***************************************************************************)
AliveThreads == {w \in Workers : worker[w].pc # "none"}

C16_AtMostOneMonitoringThread == Cardinality(AliveThreads) <= 1

(* The part the code keeps: a start request that finds the flag set starts *)
(* no thread, so a new thread appears only while the flag is clear.        *)
C16_NoStartWhileActive ==
  [][(\E w \in Workers : worker[w].pc = "none" /\ worker'[w].pc # "none") => ~active]_vars


(***************************************************************************)
(* C17.  Stopping is cooperative: a thread reads the flag before each      *)
(* cycle, each block and each transaction.  While the flag is clear no     *)
(* thread starts a cycle, fetches a block or takes a transaction to score  *)
(* (a scoring already begun completes), and once a stop has cleared the    *)
(* flag, either a start follows or every thread eventually terminates.     *)
(***************************************************************************)
BeginsWork(w) ==
  \/ worker[w].pc = "loop" /\ worker'[w].pc \in {"block", "drain", "backoff"}
  \/ worker[w].pc = "block" /\ worker'[w].pc = "tx"
  \/ worker[w].pc = "tx" /\ worker'[w].pc = "score"

C17_CooperativeStop ==
  /\ [][\A w \in Workers : ~active => ~BeginsWork(w)]_vars
  /\ (~active ~> (active \/ NoThreadAlive))

(* A thread has scored a transaction, was stopped, and has terminated. *)
C17_Witness ==
  /\ ~active
  /\ NoThreadAlive
  /\ processed_tx_hashes # {}


(***************************************************************************)
(* C18.  No failure ends a monitoring thread: a failed head read, block    *)
(* fetch, scoring or drain is caught and the thread goes on.  A thread     *)
(* terminates only by reading a clear flag, and a running thread always    *)
(* comes back to the head of its loop (or terminates on a clear flag).     *)
(***************************************************************************)
Terminates(w) == worker[w].pc # "none" /\ worker'[w].pc = "none"

C18_FailuresNeverEndThread ==
  /\ [][\A w \in Workers : Terminates(w) => ~active]_vars
  /\ \A w \in Workers :
       (worker[w].pc # "none") ~> (worker[w].pc \in {"loop", "none"})

(* A failure has reached the outer handler while the flag is set, after    *)
(* the thread had handed over a transaction.                               *)
C18_Witness ==
  /\ active
  /\ \E w \in Workers : worker[w].pc = "backoff"
  /\ processed_tx_hashes # {}


(***************************************************************************)
(* C19.  A failure of the database write loses no scoring output: the      *)
(* step that marks a hash in processed_tx_hashes also puts its result on   *)
(* the queue, whether the profiles were updated or the write failed and    *)
(* left them as they were; and the drain emits every queue entry to the    *)
(* live feed, the history, the counters and the alert buffers without      *)
(* looking at the database.                                                *)
(***************************************************************************)
Marks(w) ==
  /\ StepOf(w)
  /\ worker[w].pc = "score"
  /\ processed_tx_hashes' # processed_tx_hashes

C19_PersistenceFailureLosesNothing ==
  /\ [][\A w \in Workers :
          Marks(w) =>
            LET result == process_transaction_data(TxOnChain(worker[w].tx))
            IN  /\ processed_tx_hashes' = processed_tx_hashes \cup {worker[w].tx}
                /\ transaction_queue' = Append(transaction_queue, result)
                /\ \/ node_analysis' = update_node_analysis(node_analysis, result)
                   \/ node_analysis' = node_analysis]_vars
  /\ [][DrainAppend =>
          LET tx == Head(transaction_queue)
              routed == RouteAlert(tx, "SUSPICIOUS", high_risk_transactions,
                                   suspicious_alerts)
          IN  /\ live_transactions' = InsertNewest(live_transactions, tx, LiveCap)
              /\ fraud_history' = AppendFifo(fraud_history, tx.fraud_probability, LiveCap)
              /\ total_processed' = total_processed + 1
              /\ high_risk_transactions' = routed.high
              /\ suspicious_alerts' = routed.susp]_vars

(* A transaction is in the live feed and counted although no profile was   *)
(* ever written.                                                           *)
C19_Witness ==
  /\ live_transactions # <<>>
  /\ total_processed = Len(live_transactions)
  /\ \A a \in DOMAIN node_analysis : node_analysis[a] = NoProfile


(***************************************************************************)
(* C20.  Batch completeness: the analysis of a CSV of N well-formed rows   *)
(* yields exactly N results, the report counts N transactions, its         *)
(* blocked, flagged and approved tallies sum to N, and each result is      *)
(* counted in exactly one of them, the tier of its risk score.             *)
(***************************************************************************)
TierCount(results, level) ==
  CountIf(results, LAMBDA r : get_risk_level_and_action(r.risk_score).level = level)

C20_BatchCompleteness ==
  (scored.path = "batch" /\ scored.arg.missing = "none" /\ WellFormed(scored.arg.file)) =>
    LET N == Len(scored.arg.file)
        report == scored.report
    IN  /\ Len(scored.results) = N
        /\ \A i \in 1 .. N : scored.results[i].TxHash = UploadedRow(scored.arg.file[i]).TxHash
        /\ report.total_transactions = N
        /\ report.blocked + report.flagged + report.approved = N
        /\ report.blocked = TierCount(scored.results, "BLOCKED")
        /\ report.flagged = TierCount(scored.results, "SUSPICIOUS")
        /\ report.approved = TierCount(scored.results, "APPROVED")

(* A batch of three rows with one result in each tally. *)
C20_Witness ==
  /\ scored.path = "batch"
  /\ scored.arg.missing = "none"
  /\ Len(scored.arg.file) = MaxBatchRows
  /\ scored.report.blocked = 1
  /\ scored.report.flagged = 1
  /\ scored.report.approved = 1


(***************************************************************************)
(* C21.  Row-level error isolation: a row whose Value cannot be parsed is  *)
(* skipped, and every other row of the batch is still scored and           *)
(* returned, in order; one bad row never makes the whole batch fail.       *)
(***************************************************************************)
GoodRows(file) == SelectSeq(file, LAMBDA k : ParsesAsFloat(UploadedRow(k).Value))

C21_RowErrorIsolation ==
  (scored.path = "batch" /\ scored.arg.missing = "none") =>
    LET good == GoodRows(scored.arg.file)
    IN  /\ scored.status = 200
        /\ Len(scored.results) = Len(good)
        /\ \A i \in 1 .. Len(scored.results) :
             scored.results[i].TxHash = UploadedRow(good[i]).TxHash

(***************************************************************************)
(* C22: every fraud probability a scoring path returns lies in [0, 0.95]:  *)
(* the streaming scorer clamps after its last adjustment, and the weighted *)
(* sum of the ensemble is never reported above 0.95.                       *)
(***************************************************************************)
C22_ProbabilityWithinCap ==
  scored.path \in {"streaming", "backend", "ensemble"} =>
    scored.fraud_probability \in 0 .. MaxProbability

(***************************************************************************)
(* C23.  Frame of the profile writers.  No step changes first_seen of an   *)
(* address that has a row.  A step of update_node_analysis (a thread's     *)
(* commit) leaves is_flagged of every existing row as it was.  A step of   *)
(* flag_node changes is_flagged of one address only and leaves every       *)
(* count, value sum, percentage and risk score of every row unchanged.     *)
(***************************************************************************)
Existing == {a \in DOMAIN node_analysis : node_analysis[a] # NoProfile}

FlagStep == node_analysis' # node_analysis /\ worker' = worker

C23_WritersFrame ==
  [][/\ \A a \in Existing :
          /\ node_analysis'[a].first_seen = node_analysis[a].first_seen
          /\ ~FlagStep => node_analysis'[a].is_flagged = node_analysis[a].is_flagged
     /\ FlagStep =>
          /\ Cardinality({a \in DOMAIN node_analysis :
                            node_analysis'[a] # node_analysis[a]}) = 1
          /\ \A a \in DOMAIN node_analysis :
               node_analysis'[a] =
                 [node_analysis[a] EXCEPT !.is_flagged = node_analysis'[a].is_flagged]]_vars

(* A row that was flagged and that an UPDATE has rewritten, some time      *)
(* after its creation.                                                     *)
C23_Witness ==
  \E a \in DOMAIN node_analysis :
    /\ node_analysis[a].is_flagged
    /\ node_analysis[a].total_transactions >= 2
    /\ node_analysis[a].first_seen < chain_head

(***************************************************************************)
(* C24.  After every profile write, creation included, the stored risk     *)
(* score is the documented combination of the new counters, the stored     *)
(* fraud percentage is fraud_count / total_count * 100, and the risk score *)
(* lies in [0, 1].                                                         *)
(***************************************************************************)
C24_RiskScoreFormula ==
  \A a \in Existing :
    LET row == node_analysis[a]
    IN  /\ row.fraud_percentage =
             FraudPercentage(row.fraud_transactions, row.total_transactions)
        /\ row.risk_score =
             RiskScore(row.fraud_transactions, row.total_transactions, row.total_value)
        /\ row.risk_score \in 0 .. RiskUnit

(***************************************************************************)
(* C25.  A batch that lacks one of the required columns (TxHash,           *)
(* BlockHeight, TimeStamp, From, To, Value) is rejected as a whole: the    *)
(* request does not succeed and no transaction of it is scored, so that    *)
(* none can reach an alert buffer.                                         *)
(***************************************************************************)
C25_MissingColumnRejected ==
  (scored.path = "batch" /\ scored.arg.missing \in RequiredColumns) =>
    /\ scored.status # 200
    /\ scored.results = <<>>

(***************************************************************************)
(* C26.  A transaction of value 0 whose sender is its receiver, scored by  *)
(* the rule-based analyser, carries the flags "Self Transaction" and       *)
(* "Dust Transaction", and its risk_score is at least 45.                  *)
(***************************************************************************)
HasFlag(result, flag) == \E i \in 1 .. Len(result.flags) : result.flags[i] = flag

C26_SelfDustScenario ==
  (/\ scored.path = "rule"
   /\ scored.arg.Value.n = 0
   /\ scored.arg.From.id = scored.arg.To.id) =>
    /\ HasFlag(scored.result, "Self Transaction")
    /\ HasFlag(scored.result, "Dust Transaction")
    /\ scored.risk_score >= 45

(***************************************************************************)
(* C27.  Label and score of backend.predict_with_risk agree as the debug   *)
(* script checks them: a row labelled 'Normal' has risk_score < 50 and a   *)
(* row labelled 'Fraudulent' has risk_score >= 50.                         *)
(***************************************************************************)
C27_LabelScoreConsistent ==
  scored.path = "backend" =>
    /\ scored.result.label = "Normal" => scored.risk_score < 50
    /\ scored.result.label = "Fraudulent" => scored.risk_score >= 50

C27_Witness ==
  /\ scored.path = "backend"
  /\ scored.result.label = "Normal"
  /\ scored.risk_score = 49

(***************************************************************************)
(* C28.  Along the streaming path the amount in wei is divided by 10^18    *)
(* exactly once: the amount the scorer compares with its thresholds and    *)
(* the amount added to the value sums of the profiles both equal           *)
(* wei / 10^18.  The amounts compared have denominators that are           *)
(* multiples of WeiPerEth.                                                 *)
(***************************************************************************)
WholeUnits(wei) == [n |-> wei, d |-> WeiPerEth]
RatEq(a, b) == a.n * (b.d \div WeiPerEth) = b.n * (a.d \div WeiPerEth)

C28_ConvertedOnce ==
  scored.path = "streaming" =>
    /\ RatEq(ScoredAmount(scored.arg), WholeUnits(scored.arg.Value_Wei))
    /\ RatEq(ProfileAmount(scored.result), WholeUnits(scored.arg.Value_Wei))

(***************************************************************************)
(* C29.  Per-cycle work bound and block cursor.  While a monitoring thread *)
(* runs, last_processed_block never decreases; a cycle starts at a block   *)
(* beyond the cursor, so that the thread takes up no block of an earlier   *)
(* cycle of its own again, and within the BlockWindow most recent blocks;  *)
(* and it samples at most SampleSize transactions of a block.              *)
(***************************************************************************)
WorkerRuns == \E w \in Workers : worker[w].pc # "none"

StartsCycle(w) == worker[w].pc = "loop" /\ worker'[w].pc = "block"

C29_CursorAndWindow ==
  [][/\ WorkerRuns => last_processed_block' >= last_processed_block
     /\ \A w \in Workers :
          /\ StartsCycle(w) =>
               /\ worker'[w].blk > last_processed_block
               /\ worker'[w].blk > worker'[w].cur - BlockWindow
          /\ worker'[w].ss <= SampleSize
          /\ worker'[w].txi <= worker'[w].ss]_vars

(***************************************************************************)
(* C30.  Exactly-once delivery from the queue to the sinks.  Whenever no   *)
(* thread is between taking an entry and counting it, every entry taken    *)
(* so far has been inserted into the live feed, appended to the fraud      *)
(* history and counted once, so that both hold Min(LiveCap,                *)
(* total_processed) entries; total_fraud never exceeds total_processed;    *)
(* and the queue is empty when a thread's drain completes.                 *)
(***************************************************************************)
Counting == \E w \in Workers : worker[w].pc \in {"count", "fraud"}

Delivered ==
  /\ total_fraud <= total_processed
  /\ ~Counting =>
       /\ Len(live_transactions) = Min(LiveCap, total_processed)
       /\ Len(fraud_history) = Min(LiveCap, total_processed)

DrainCompletes(w) == worker[w].pc = "drain" /\ worker'[w].pc = "cleanup"

C30_ExactlyOnceDelivery ==
  [][/\ Delivered'
     /\ \A w \in Workers : DrainCompletes(w) => transaction_queue = <<>>]_vars

====
